---- MODULE Spec2Model ----
(***************************************************************************)
(* Model of the vdom reconciliation engine (crates vdom and vdom_web).     *)
(*                                                                         *)
(* The statically shaped node tree (TagStatic, TextDyn, (L1, L2), (),      *)
(* Option<N>, CompNode) is a tree of records, the browser document is a    *)
(* heap of backing nodes addressed by handles, and the component           *)
(* instances shared through StrongCompCtx are a heap addressed by instance *)
(* ids.  visit and diff are recursive operators that thread a "world"      *)
(* record (document, instances, logs, error) exactly like the Rust code    *)
(* threads &mut references and the ? operator.                             *)
(***************************************************************************)
EXTENDS Integers, Sequences, FiniteSets, TLC

(* ---------------------------------------------------------------------- *)
(* Bounds                                                                  *)
(* ---------------------------------------------------------------------- *)

\* largest component input the application passes (usize inputs 0..MaxInput)
MaxInput == 1

\* largest component state reachable through CompCtx::with_instance_mut
MaxState == 1

\* render calls per component instance after which self-updates stop
MaxRenders == 2

\* a rejected driver call is at most the (MaxFuel+1)-th fallible call of its pass
MaxFuel == 1

\* largest integer key and non-keyed index of the key and path checks
MaxKeyInt == 1

\* longest identifier sequence of the path checks
MaxPathLen == 2

\* most children of a node in the trees the application renders
MaxKids == 2

\* most render passes of one run
MaxStarts == 2
MaxScheduled == 4
MaxDepth == 2
MaxCells == 2

\* listener closures the application registers (ids 1..MaxListeners)
MaxListeners == 2

\* rounds of the frame callback's loop over the widget holders that are followed
MaxLoop == 3

(* ---------------------------------------------------------------------- *)
(* Values                                                                  *)
(* ---------------------------------------------------------------------- *)

OK == "ok"

\* Option<web::Element> / Option<web::Text> / Option<StrongCompCtx>: 0 is None
NoHandle == 0

\* the element App::new receives as root_element
RootElem == 1

\* fuel value meaning "no driver call fails"
NoFault == -1

Digits == <<"0", "1", "2", "3", "4", "5", "6", "7", "8", "9">>

\* usize::to_string for the one-digit values the model uses
ToStr(n) == Digits[n + 1]

NoneStr == [some |-> FALSE, s |-> ""]

SomeStr(s) == [some |-> TRUE, s |-> s]

(* ---------------------------------------------------------------------- *)
(* Attribute values                                                        *)
(* ---------------------------------------------------------------------- *)

AttrTrueV == [v |-> "True", s |-> ""]

AttrNullV == [v |-> "Null", s |-> ""]

AttrStrV(s) == [v |-> "Str", s |-> s]

AttrStringV(s) == [v |-> "String", s |-> s]

\* impl From<bool> for AttrValue
AttrFromBool(b) == IF b THEN AttrTrueV ELSE AttrNullV

\* impl From<Option<String>> for AttrValue
AttrFromOptString(o) == IF o.some THEN AttrStringV(o.s) ELSE AttrNullV

\* impl From<&AttrValue> for AttrRefValue: Str and String both become Str
AttrRefValue(val) ==
    CASE val.v = "True" -> [v |-> "True", s |-> ""]
      [] val.v = "Null" -> [v |-> "Null", s |-> ""]
      [] val.v = "Str" -> [v |-> "Str", s |-> val.s]
      [] val.v = "String" -> [v |-> "Str", s |-> val.s]

\* AttrDyn::new(key, value)
AttrDyn(key, val) == [aty |-> "dyn", key |-> key, value |-> val]

\* AttrTrue::new(key)
AttrTrue(key) == [aty |-> "true", key |-> key, value |-> AttrTrueV]

\* AttrStr::new(key, value)
AttrStr(key, s) == [aty |-> "str", key |-> key, value |-> AttrStrV(s)]

\* Attr::value
AttrValueOf(attr) ==
    CASE attr.aty = "true" -> [v |-> "True", s |-> ""]
      [] attr.aty = "str" -> [v |-> "Str", s |-> attr.value.s]
      [] attr.aty = "dyn" -> AttrRefValue(attr.value)

\* Attr::is_value_static
IsValueStatic(attr) == attr.aty # "dyn"

\* a faulty attr_to_str that writes True as the word "true"
attr_to_str_word(attr) ==
    CASE AttrValueOf(attr).v = "True" -> SomeStr("true")
      [] AttrValueOf(attr).v = "Null" -> NoneStr
      [] AttrValueOf(attr).v = "Str" -> SomeStr(AttrValueOf(attr).s)

\* attr_to_str: True is rendered as the attribute's own name
attr_to_str(attr) ==
    LET val == AttrValueOf(attr)
    IN CASE val.v = "True" -> SomeStr(attr.key)
         [] val.v = "Null" -> NoneStr
         [] val.v = "Str" -> SomeStr(val.s)

(* ---------------------------------------------------------------------- *)
(* The backing document: a heap of nodes addressed by handles              *)
(* ---------------------------------------------------------------------- *)

NewElemRec(name) ==
    [kind |-> "elem", name |-> name, data |-> "", attrs |-> {},
     children |-> <<>>, parent |-> NoHandle]

NewTextRec(data) ==
    [kind |-> "text", name |-> "#text", data |-> data, attrs |-> {},
     children |-> <<>>, parent |-> NoHandle]

\* a handle no live backing node uses
FreshHandle(dom) ==
    CHOOSE h \in 1..(Cardinality(DOMAIN dom) + 1) :
        /\ h \notin DOMAIN dom
        /\ \A g \in 1..(h - 1) : g \in DOMAIN dom

SeqWithout(s, x) == SelectSeq(s, LAMBDA y : y # x)

SeqInsertAt(s, pos, x) == SubSeq(s, 1, pos - 1) \o <<x>> \o SubSeq(s, pos, Len(s))

PosOf(s, x) == CHOOSE i \in 1..Len(s) : s[i] = x

\* detach h from its parent, if it has one
Detach(dom, h) ==
    IF dom[h].parent = NoHandle
    THEN dom
    ELSE [dom EXCEPT ![dom[h].parent].children = SeqWithout(@, h),
                     ![h].parent = NoHandle]

OpRec(op, h, p, i, s, t) == [op |-> op, h |-> h, p |-> p, i |-> i, s |-> s, t |-> t]

\* an Err return or a panic: the observation records how many callbacks had
\* been invoked when it was raised
Fail(w, e) ==
    [w EXCEPT !.err = e,
              !.ev = Append(@, [ev |-> "fail", e |-> e, cbs |-> Len(w.cb)])]

\* a fallible driver call fails when the fuel is exhausted
Exhausted(w) == w.fuel = 0

Burn(w) == [w EXCEPT !.fuel = IF @ > 0 THEN @ - 1 ELSE @]

\* document.create_element(name): returns the world and the new handle
CreateElement(w, name) ==
    IF Exhausted(w)
    THEN [w |-> Fail(w, "js"), h |-> NoHandle]
    ELSE LET h == FreshHandle(w.dom)
             w1 == Burn(w)
         IN [w |-> [w1 EXCEPT !.dom = (h :> NewElemRec(name)) @@ w.dom,
                              !.ops = Append(@, OpRec("create_element", h, NoHandle, 0, name, ""))],
             h |-> h]

\* document.create_text_node(data): infallible
CreateTextNode(w, data) ==
    LET h == FreshHandle(w.dom)
    IN [w |-> [w EXCEPT !.dom = (h :> NewTextRec(data)) @@ w.dom,
                        !.ops = Append(@, OpRec("create_text_node", h, NoHandle, 0, data, ""))],
        h |-> h]

\* parent.insert_before(h, parent.child_nodes().get(index))
InsertBefore(w, parent, h, index) ==
    IF Exhausted(w)
    THEN Fail(w, "js")
    ELSE LET before == w.dom[parent].children
             ref == IF index < Len(before) THEN before[index + 1] ELSE NoHandle
             d1 == Detach(w.dom, h)
             kids == d1[parent].children
             pos == IF ref = NoHandle \/ ref = h THEN Len(kids) + 1 ELSE PosOf(kids, ref)
             d2 == [d1 EXCEPT ![parent].children = SeqInsertAt(kids, pos, h),
                              ![h].parent = parent]
             w1 == Burn(w)
         IN [w1 EXCEPT !.dom = d2,
                       !.ops = Append(@, OpRec("insert_before", h, parent, index, "", ""))]

\* Element::remove(): detaches the element, infallible
ElemRemove(w, h) ==
    [w EXCEPT !.dom = Detach(w.dom, h),
              !.ops = Append(@, OpRec("remove", h, NoHandle, 0, "", ""))]

\* node.parent_node().ok_or("text has no parent")?.remove_child(node)?
RemoveChild(w, h) ==
    IF w.dom[h].parent = NoHandle
    THEN Fail(w, "text has no parent")
    ELSE IF Exhausted(w)
         THEN Fail(w, "js")
         ELSE LET w1 == Burn(w)
              IN [w1 EXCEPT !.dom = Detach(w.dom, h),
                            !.ops = Append(@, OpRec("remove_child", h, w.dom[h].parent, 0, "", ""))]

\* element.set_attribute(name, value)
SetAttribute(w, h, name, value) ==
    IF Exhausted(w)
    THEN Fail(w, "js")
    ELSE LET w1 == Burn(w)
         IN [w1 EXCEPT !.dom[h].attrs = {a \in @ : a[1] # name} \cup {<<name, value>>},
                       !.ops = Append(@, OpRec("set_attribute", h, NoHandle, 0, name, value))]

\* element.remove_attribute(name)
RemoveAttribute(w, h, name) ==
    IF Exhausted(w)
    THEN Fail(w, "js")
    ELSE LET w1 == Burn(w)
         IN [w1 EXCEPT !.dom[h].attrs = {a \in @ : a[1] # name},
                       !.ops = Append(@, OpRec("remove_attribute", h, NoHandle, 0, name, ""))]

\* CharacterData::set_data(data): infallible
SetData(w, h, data) ==
    [w EXCEPT !.dom[h].data = data,
              !.ops = Append(@, OpRec("set_data", h, NoHandle, 0, data, ""))]

(* ---------------------------------------------------------------------- *)
(* Node constructors                                                       *)
(* ---------------------------------------------------------------------- *)

\* TagStatic::new(tag, attrs, children); the attribute list is kept in list order
TagStatic(tag, attrs, children) ==
    [kind |-> "tag", static |-> TRUE, tag |-> tag, attrs |-> attrs,
     children |-> children, store |-> NoHandle]

\* TagDyn::new(tag, attrs, children)
TagDyn(tag, attrs, children) ==
    [kind |-> "tag", static |-> FALSE, tag |-> tag, attrs |-> attrs,
     children |-> children, store |-> NoHandle]

\* TextStatic::new(text)
TextStatic(text) == [kind |-> "text", static |-> TRUE, text |-> text, store |-> NoHandle]

\* TextDyn::new(text)
TextDyn(text) == [kind |-> "text", static |-> FALSE, text |-> text, store |-> NoHandle]

\* the composition (L1, L2)
Pair(l, r) == [kind |-> "pair", l |-> l, r |-> r]

\* the empty composition ()
Unit == [kind |-> "unit"]

\* Option<N>: Some(node)
OptSome(n) == [kind |-> "opt", some |-> TRUE, node |-> n]

\* Option<N>: None
OptNone == [kind |-> "opt", some |-> FALSE, node |-> Unit]

NotRendered == [st |-> "NotRendered"]

Taken == [st |-> "Taken"]

Rendered(comp, input, rendered) ==
    [st |-> "Rendered", comp |-> comp, input |-> input, rendered |-> rendered]

\* CompNode::new(input) for the component type ty
CompNode(ty, input) ==
    [kind |-> "comp", ty |-> ty, input |-> [some |-> TRUE, v |-> input],
     comp_rendered |-> NotRendered, comp_ctx |-> NoHandle]

(* ---------------------------------------------------------------------- *)
(* The application's components and root tree                              *)
(* ---------------------------------------------------------------------- *)

\* Comp::new(input, ctx): both component types start in state 0
CompNew(ty, input) == 0

\* the states a component can move itself to: A counts, B is a unit struct
CompStates(ty) == IF ty = "A" THEN 0..MaxState ELSE {0}

\* Comp::render(&self, input).  A renders a text and an optional nested B
\* directly into its parent's children; B renders one text.
CompRender(ty, comp, input) ==
    IF ty = "A"
    THEN Pair(TextDyn(ToStr(comp)),
              IF (comp + input) % 2 = 0 THEN OptSome(CompNode("B", input)) ELSE OptNone)
    ELSE TextDyn(ToStr(input))

\* class attribute values the application passes
ClsValues == {AttrNullV, AttrStringV("x")}

\* contents of the optional paragraph: absent or present
ParValues == {NoneStr, SomeStr("a")}

Params == [cls : ClsValues, inp : 0..MaxInput, par : ParValues]

\* the tree the application builds for one render pass
RootRender(p) ==
    TagStatic("div", <<AttrDyn("class", p.cls)>>,
        Pair(Pair(CompNode("A", p.inp),
                  IF p.par.some
                  THEN OptSome(TagStatic("p", <<AttrStr("lang", "en"), AttrTrue("hidden")>>,
                                          TextDyn(p.par.s)))
                  ELSE OptNone),
             TextStatic("end")))

(* ---------------------------------------------------------------------- *)
(* Logs and measures                                                       *)
(* ---------------------------------------------------------------------- *)

\* record one visitor/differ callback invocation
Cb(w, name, s, i) == [w EXCEPT !.cb = Append(@, [cb |-> name, s |-> s, i |-> i])]

\* record one observation of the traversal
Ev(w, e) == [w EXCEPT !.ev = Append(@, e)]

RECURSIVE Count(_)
\* number of logical tag/text nodes a composition contributes to its parent
Count(n) ==
    CASE n.kind = "pair" -> Count(n.l) + Count(n.r)
      [] n.kind = "unit" -> 0
      [] n.kind = "opt" -> IF n.some THEN Count(n.node) ELSE 0
      [] n.kind = "tag" -> 1
      [] n.kind = "text" -> 1
      [] n.kind = "comp" ->
            IF n.comp_rendered.st = "Rendered" THEN Count(n.comp_rendered.rendered) ELSE 0

RECURSIVE Slots(_)
\* driver-store slots of the logical nodes a composition contributes, in order
Slots(n) ==
    CASE n.kind = "pair" -> Slots(n.l) \o Slots(n.r)
      [] n.kind = "unit" -> <<>>
      [] n.kind = "opt" -> IF n.some THEN Slots(n.node) ELSE <<>>
      [] n.kind = "tag" -> <<n.store>>
      [] n.kind = "text" -> <<n.store>>
      [] n.kind = "comp" ->
            IF n.comp_rendered.st = "Rendered" THEN Slots(n.comp_rendered.rendered) ELSE <<>>

RECURSIVE AllSlots(_)
\* every driver-store slot of a tree, descendants and rendered subtrees included
AllSlots(n) ==
    CASE n.kind = "pair" -> AllSlots(n.l) \o AllSlots(n.r)
      [] n.kind = "unit" -> <<>>
      [] n.kind = "opt" -> IF n.some THEN AllSlots(n.node) ELSE <<>>
      [] n.kind = "tag" -> <<n.store>> \o AllSlots(n.children)
      [] n.kind = "text" -> <<n.store>>
      [] n.kind = "comp" ->
            IF n.comp_rendered.st = "Rendered" THEN AllSlots(n.comp_rendered.rendered) ELSE <<>>

\* the backing handles a tree's slots hold
Held(n) == SelectSeq(AllSlots(n), LAMBDA h : h # NoHandle)

RECURSIVE CompCtxs(_)
\* the strong component contexts a tree holds
CompCtxs(n) ==
    CASE n.kind = "pair" -> CompCtxs(n.l) \cup CompCtxs(n.r)
      [] n.kind = "unit" -> {}
      [] n.kind = "opt" -> IF n.some THEN CompCtxs(n.node) ELSE {}
      [] n.kind = "tag" -> CompCtxs(n.children)
      [] n.kind = "text" -> {}
      [] n.kind = "comp" ->
            (IF n.comp_ctx = NoHandle THEN {} ELSE {n.comp_ctx})
            \cup (IF n.comp_rendered.st = "Rendered"
                  THEN CompCtxs(n.comp_rendered.rendered) ELSE {})

(* ---------------------------------------------------------------------- *)
(* Component instances (StrongCompCtx / CompInstance)                      *)
(* ---------------------------------------------------------------------- *)

NoInput == [some |-> FALSE, v |-> 0]

\* an instance id no live instance uses
FreshInst(inst) ==
    CHOOSE i \in 1..(Cardinality(DOMAIN inst) + 1) :
        /\ i \notin DOMAIN inst
        /\ \A g \in 1..(i - 1) : g \in DOMAIN inst

\* StrongCompCtx::new: calls Comp::new and stores the instance.  renders
\* counts the render calls made on the instance.
StrongCompCtx_new(w, ty, input) ==
    LET id == FreshInst(w.inst)
        rec == [ty |-> ty, comp |-> CompNew(ty, input), input |-> input,
                renders |-> 0]
    IN [w |-> [w EXCEPT !.inst = (id :> rec) @@ w.inst], id |-> id]

\* CompNode::init_comp_ctx: self.input.take().unwrap()
init_comp_ctx(comp, w) ==
    IF ~comp.input.some
    THEN [node |-> comp, w |-> Fail(w, "panic: unwrap on None input")]
    ELSE LET c == StrongCompCtx_new(w, comp.ty, comp.input.v)
         IN [node |-> [comp EXCEPT !.input = NoInput, !.comp_ctx = c.id], w |-> c.w]

\* a faulty comparison that forgets the component state
SnapshotEqual_inputOnly(snap, instance) == snap.input = instance.input

\* a faulty comparison that never finds the snapshot reusable
SnapshotEqual_never(snap, instance) == FALSE

\* diff_rendered's test: ancestor_comp == &instance.comp && ancestor_input == &instance.input
SnapshotEqual(snap, instance) ==
    snap.comp = instance.comp /\ snap.input = instance.input

\* a faulty reuse that copies the snapshot and leaves the ancestor Rendered
TakeSnapshot_clone(anc) == anc

\* mem::replace(&mut ancestor.comp_rendered, Taken): what is left in the ancestor
TakeSnapshot(anc) == [anc EXCEPT !.comp_rendered = Taken]

\* a faulty transplant that copies the handle and leaves it in the ancestor
TakeStore_copy(n) == n

\* driver_store().element.take() / driver_store().text.take(): what is left behind
TakeStore(n) == [n EXCEPT !.store = NoHandle]

\* the render call of visit_rendered / diff_rendered on the live instance
RenderInstance(w, id) ==
    [rendered |-> CompRender(w.inst[id].ty, w.inst[id].comp, w.inst[id].input),
     w |-> [w EXCEPT !.inst[id].renders = @ + 1]]

(* ---------------------------------------------------------------------- *)
(* Attribute lists                                                         *)
(* ---------------------------------------------------------------------- *)

\* AttrAddVisitor::on_attr
AttrAddVisitor_on_attr(elem, attr, w) ==
    LET w0 == Cb(w, "on_attr", attr.key, 0)
        val == attr_to_str(attr)
    IN IF val.some THEN SetAttribute(w0, elem, attr.key, val.s) ELSE w0

RECURSIVE AttrList_visit_on(_, _, _, _)
\* a faulty AttrList::visit that drops the entry's result and carries on
AttrList_visit_on(attrs, k, elem, w) ==
    IF k > Len(attrs)
    THEN w
    ELSE AttrList_visit_on(attrs, k + 1, elem, AttrAddVisitor_on_attr(elem, attrs[k], w))

RECURSIVE AttrList_visit(_, _, _, _)
\* AttrList::visit over the nested pairs, in list order
AttrList_visit(attrs, k, elem, w) ==
    IF k > Len(attrs)
    THEN w
    ELSE LET w1 == AttrAddVisitor_on_attr(elem, attrs[k], w)
         IN IF w1.err # OK THEN w1 ELSE AttrList_visit(attrs, k + 1, elem, w1)

\* a faulty on_diff that sets a present attribute without comparing the values
AttrStdDiffer_on_diff_always(elem, curr, anc, w) ==
    LET w0 == Cb(w, "on_diff", curr.key, 0)
        cv == attr_to_str(curr)
        av == attr_to_str(anc)
    IN CASE cv.some -> SetAttribute(w0, elem, curr.key, cv.s)
         [] ~cv.some /\ av.some -> RemoveAttribute(w0, elem, curr.key)
         [] ~cv.some /\ ~av.some -> w0

\* AttrStdDiffer::on_diff
AttrStdDiffer_on_diff(elem, curr, anc, w) ==
    LET w0 == Cb(w, "on_diff", curr.key, 0)
        cv == attr_to_str(curr)
        av == attr_to_str(anc)
    IN CASE cv.some /\ av.some ->
                IF cv.s # av.s THEN SetAttribute(w0, elem, curr.key, cv.s) ELSE w0
         [] cv.some /\ ~av.some -> SetAttribute(w0, elem, curr.key, cv.s)
         [] ~cv.some /\ av.some -> RemoveAttribute(w0, elem, curr.key)
         [] ~cv.some /\ ~av.some -> w0

\* a faulty AttrListEntry::diff that leaves out on_diff for a static value
AttrListEntry_diff_static(elem, curr, anc, w) ==
    IF curr.key # anc.key
    THEN Fail(w, "panic: assertion failed (attr name)")
    ELSE IF IsValueStatic(curr)
         THEN IF AttrValueOf(curr) # AttrValueOf(anc)
              THEN Fail(w, "panic: assertion failed (static attr value)")
              ELSE w
         ELSE AttrStdDiffer_on_diff(elem, curr, anc, w)

\* AttrListEntry::diff: the two debug assertions, then on_diff
AttrListEntry_diff(elem, curr, anc, w) ==
    IF curr.key # anc.key
    THEN Fail(w, "panic: assertion failed (attr name)")
    ELSE IF IsValueStatic(curr) /\ AttrValueOf(curr) # AttrValueOf(anc)
         THEN Fail(w, "panic: assertion failed (static attr value)")
         ELSE AttrStdDiffer_on_diff(elem, curr, anc, w)

RECURSIVE AttrList_diff(_, _, _, _, _)
\* AttrList::diff over the nested pairs, in list order
AttrList_diff(curr, anc, k, elem, w) ==
    IF k > Len(curr)
    THEN w
    ELSE LET w1 == AttrListEntry_diff(elem, curr[k], anc[k], w)
         IN IF w1.err # OK THEN w1 ELSE AttrList_diff(curr, anc, k + 1, elem, w1)

(* ---------------------------------------------------------------------- *)
(* visit                                                                   *)
(* ---------------------------------------------------------------------- *)

\* the element of a one-element set: { e(r) : r \in {x} } names the result x of
\* one call as r and builds e from it
The(S) == CHOOSE e \in S : TRUE

VR(node, index, w) == [node |-> node, index |-> index, w |-> w]

\* NodeAddVisitor { parent_element }
AddV(parent) == [v |-> "add", parent |-> parent]

\* NodeRemoveVisitor
RemoveV == [v |-> "remove", parent |-> NoHandle]

RECURSIVE Visit(_, _, _, _)
RECURSIVE VisitNode(_, _, _, _)
RECURSIVE NodeAddVisitor_on_tag(_, _, _, _)
RECURSIVE visit_rendered(_, _, _, _)

\* NodeAddVisitor::on_text
NodeAddVisitor_on_text(parent, index, text, w) ==
    The({ The({ IF w1.err # OK
                THEN [node |-> text, w |-> w1]
                ELSE [node |-> [text EXCEPT !.store = c.h], w |-> w1]
                : w1 \in {InsertBefore(c.w, parent, c.h, index)} })
          : c \in {CreateTextNode(Cb(w, "add.on_text", text.text, index), text.text)} })

\* NodeRemoveVisitor::on_tag: removes the element, the store keeps its handle
NodeRemoveVisitor_on_tag(index, tag, w) ==
    LET w0 == Cb(w, "remove.on_tag", tag.tag, index)
    IN IF tag.store = NoHandle
       THEN [node |-> tag, w |-> Fail(w0, "element is None")]
       ELSE [node |-> tag, w |-> ElemRemove(w0, tag.store)]

\* NodeRemoveVisitor::on_text
NodeRemoveVisitor_on_text(index, text, w) ==
    LET w0 == Cb(w, "remove.on_text", text.text, index)
    IN IF text.store = NoHandle
       THEN [node |-> text, w |-> Fail(w0, "text is None")]
       ELSE [node |-> text, w |-> RemoveChild(w0, text.store)]

\* NodeAddVisitor::on_tag: create the element, visit its attributes, visit its
\* children with the element as their parent, insert it, store the handle
NodeAddVisitor_on_tag(parent, index, tag, w) ==
    The({ IF c.w.err # OK
          THEN [node |-> tag, w |-> c.w]
          ELSE The({ IF w1.err # OK
                     THEN [node |-> tag, w |-> w1]
                     ELSE The({ IF r.w.err # OK
                                THEN [node |-> [tag EXCEPT !.children = r.node], w |-> r.w]
                                ELSE The({ IF w2.err # OK
                                           THEN [node |-> [tag EXCEPT !.children = r.node],
                                                 w |-> w2]
                                           ELSE [node |-> [tag EXCEPT !.children = r.node,
                                                                      !.store = c.h],
                                                 w |-> w2]
                                           : w2 \in {InsertBefore(r.w, parent, c.h, index)} })
                                : r \in {Visit(tag.children, 0, AddV(c.h), w1)} })
                     : w1 \in {AttrList_visit(tag.attrs, 1, c.h, c.w)} })
          : c \in {CreateElement(Cb(w, "add.on_tag", tag.tag, index), tag.tag)} })

\* CompNode::visit_rendered
visit_rendered(comp, index, v, w) ==
    CASE comp.comp_rendered.st = "NotRendered" ->
            IF comp.comp_ctx = NoHandle
            THEN VR(comp, index, Fail(w, "panic: CompNode.comp_ctx is None"))
            ELSE The({ The({ VR([comp EXCEPT !.comp_rendered =
                                     Rendered(w.inst[comp.comp_ctx].comp,
                                              w.inst[comp.comp_ctx].input, r.node)],
                                r.index, r.w)
                             : r \in {Visit(rr.rendered, index, v, rr.w)} })
                       : rr \in {RenderInstance(w, comp.comp_ctx)} })
      [] comp.comp_rendered.st = "Rendered" ->
            The({ VR([comp EXCEPT !.comp_rendered.rendered = r.node], r.index, r.w)
                  : r \in {Visit(comp.comp_rendered.rendered, index, v, w)} })
      [] comp.comp_rendered.st = "Taken" ->
            VR(comp, index, Fail(w, "panic: comp_rendered is Taken"))

\* NodeAddVisitor::on_comp / NodeRemoveVisitor::on_comp
NodeVisitor_on_comp(v, index, comp, w) ==
    IF v.v = "add"
    THEN The({ IF c.w.err # OK
               THEN VR(c.node, index, c.w)
               ELSE visit_rendered(c.node, index, v, c.w)
               : c \in {init_comp_ctx(comp, Cb(w, "add.on_comp", comp.ty, index))} })
    ELSE visit_rendered(comp, index, v, Cb(w, "remove.on_comp", comp.ty, index))

\* Node::visit of every node type
VisitNode(n, index, v, w) ==
    CASE n.kind = "pair" ->
            The({ IF r1.w.err # OK
                  THEN VR([n EXCEPT !.l = r1.node], r1.index, r1.w)
                  ELSE The({ VR([n EXCEPT !.l = r1.node, !.r = r2.node], r2.index, r2.w)
                             : r2 \in {Visit(n.r, r1.index, v, r1.w)} })
                  : r1 \in {Visit(n.l, index, v, w)} })
      [] n.kind = "unit" -> VR(n, index, w)
      [] n.kind = "opt" ->
            IF n.some
            THEN The({ VR([n EXCEPT !.node = r.node], r.index, r.w)
                       : r \in {Visit(n.node, index, v, w)} })
            ELSE VR(n, index, w)
      [] n.kind = "tag" ->
            The({ IF r.w.err # OK THEN VR(r.node, index, r.w) ELSE VR(r.node, index + 1, r.w)
                  : r \in {IF v.v = "add"
                           THEN NodeAddVisitor_on_tag(v.parent, index, n, w)
                           ELSE NodeRemoveVisitor_on_tag(index, n, w)} })
      [] n.kind = "text" ->
            The({ IF r.w.err # OK THEN VR(r.node, index, r.w) ELSE VR(r.node, index + 1, r.w)
                  : r \in {IF v.v = "add"
                           THEN NodeAddVisitor_on_text(v.parent, index, n, w)
                           ELSE NodeRemoveVisitor_on_text(index, n, w)} })
      [] n.kind = "comp" -> NodeVisitor_on_comp(v, index, n, w)

\* Node::visit, observed: how far the index moved and how many logical nodes
\* the composition contributes
Visit(n, index, v, w) ==
    The({ IF r.w.err # OK
          THEN r
          ELSE VR(r.node, r.index,
                  Ev(r.w, [ev |-> "visit", kind |-> n.kind, i0 |-> index, i1 |-> r.index,
                           n |-> Count(r.node)]))
          : r \in {VisitNode(n, index, v, w)} })

(* ---------------------------------------------------------------------- *)
(* diff                                                                    *)
(* ---------------------------------------------------------------------- *)

DR(curr, anc, ci, ai, w) == [curr |-> curr, anc |-> anc, ci |-> ci, ai |-> ai, w |-> w]

RECURSIVE Diff(_, _, _, _, _, _)
RECURSIVE DiffNode(_, _, _, _, _, _)
RECURSIVE NodeStdDiffer_on_tag(_, _, _, _, _, _)
RECURSIVE diff_rendered(_, _, _, _, _, _)

\* a faulty on_node_added that restarts the index at 0
NodeStdDiffer_on_node_added_at0(parent, index, curr, w) ==
    Visit(curr, 0, AddV(parent), Cb(w, "on_node_added", curr.kind, index))

\* NodeStdDiffer::on_node_added: visits the new node with a NodeAddVisitor
NodeStdDiffer_on_node_added(parent, index, curr, w) ==
    Visit(curr, index, AddV(parent), Cb(w, "on_node_added", curr.kind, index))

\* an Option::diff whose (None, Some) arm never reaches the differ
NodeStdDiffer_on_node_removed_uncalled(ancestor_index, ancestor, w) ==
    VR(ancestor, ancestor_index, w)

\* NodeStdDiffer::on_node_removed: visits the old node with a NodeRemoveVisitor
NodeStdDiffer_on_node_removed(ancestor_index, ancestor, w) ==
    Visit(ancestor, ancestor_index, RemoveV,
          Cb(w, "on_node_removed", ancestor.kind, ancestor_index))

\* NodeStdDiffer::on_text
NodeStdDiffer_on_text(ci, ai, curr, anc, w) ==
    LET w0 == Cb(w, "diff.on_text", curr.text, ci)
        text == anc.store
        anc1 == TakeStore(anc)
    IN IF text = NoHandle
       THEN [curr |-> curr, anc |-> anc1, w |-> Fail(w0, "text is None")]
       ELSE LET w1 == IF curr.text # anc.text THEN SetData(w0, text, curr.text) ELSE w0
                curr1 == [curr EXCEPT !.store = text]
            IN [curr |-> curr1, anc |-> anc1,
                w |-> Ev(w1, [ev |-> "slot_moved", kind |-> "text", before |-> text,
                              existed |-> text \in DOMAIN w.dom,
                              after |-> curr1.store, left |-> anc1.store])]

\* NodeStdDiffer::on_tag: take the handle, diff the attributes against it,
\* diff the children with it as parent, store it in the current tree
NodeStdDiffer_on_tag(parent, ci, ai, curr, anc, w) ==
    IF anc.store = NoHandle
    THEN [curr |-> curr, anc |-> TakeStore(anc),
          w |-> Fail(Cb(w, "diff.on_tag", curr.tag, ci), "element is None")]
    ELSE The({ IF w1.err # OK
               THEN [curr |-> curr, anc |-> TakeStore(anc), w |-> w1]
               ELSE The({ LET curr1 == [curr EXCEPT !.children = r.curr]
                              anc2 == [TakeStore(anc) EXCEPT !.children = r.anc]
                              curr2 == [curr1 EXCEPT !.store = anc.store]
                          IN IF r.w.err # OK
                             THEN [curr |-> curr1, anc |-> anc2, w |-> r.w]
                             ELSE [curr |-> curr2, anc |-> anc2,
                                   w |-> Ev(r.w, [ev |-> "slot_moved", kind |-> "tag",
                                                  before |-> anc.store,
                                                  existed |-> anc.store \in DOMAIN w.dom,
                                                  after |-> curr2.store,
                                                  left |-> anc2.store])]
                          : r \in {Diff(curr.children, anc.children, 0, 0, anc.store, w1)} })
               : w1 \in {AttrList_diff(curr.attrs, anc.attrs, 1, anc.store,
                                       Cb(w, "diff.on_tag", curr.tag, ci))} })

\* CompNode::diff_rendered
diff_rendered(self, anc, ci, ai, parent, w) ==
    CASE anc.comp_rendered.st = "NotRendered" ->
            DR(self, anc, ci, ai, Fail(w, "panic: ancestor.comp_rendered is NotRendered"))
      [] anc.comp_rendered.st = "Taken" ->
            IF self.comp_rendered.st = "Rendered"
            THEN DR(self, anc, ci, ai, w)
            ELSE DR(self, anc, ci, ai, Fail(w, "panic: self.comp_rendered is not Rendered"))
      [] anc.comp_rendered.st = "Rendered" ->
            CASE self.comp_rendered.st = "NotRendered" ->
                    IF self.comp_ctx = NoHandle
                    THEN DR(self, anc, ci, ai, Fail(w, "panic: CompNode.comp_ctx is None"))
                    ELSE IF SnapshotEqual(anc.comp_rendered, w.inst[self.comp_ctx])
                         THEN DR([self EXCEPT !.comp_rendered = anc.comp_rendered],
                                 TakeSnapshot(anc), ci, ai, w)
                         ELSE The({ The({ DR([self EXCEPT !.comp_rendered =
                                                  Rendered(w.inst[self.comp_ctx].comp,
                                                           w.inst[self.comp_ctx].input,
                                                           r.curr)],
                                             [anc EXCEPT !.comp_rendered.rendered = r.anc],
                                             r.ci, r.ai, r.w)
                                          : r \in {Diff(rr.rendered,
                                                        anc.comp_rendered.rendered,
                                                        ci, ai, parent, rr.w)} })
                                    : rr \in {RenderInstance(w, self.comp_ctx)} })
              [] self.comp_rendered.st = "Rendered" ->
                    The({ DR([self EXCEPT !.comp_rendered.rendered = r.curr],
                             [anc EXCEPT !.comp_rendered.rendered = r.anc], r.ci, r.ai, r.w)
                          : r \in {Diff(self.comp_rendered.rendered,
                                        anc.comp_rendered.rendered, ci, ai, parent, w)} })
              [] self.comp_rendered.st = "Taken" ->
                    DR(self, anc, ci, ai, Fail(w, "panic: self.comp_rendered is Taken"))

\* a faulty on_comp that constructs an instance of its own for the current node
adopt_comp_ctx_init(curr, anc, w) == init_comp_ctx(curr, w)

\* NodeStdDiffer::on_comp, first statement: a current node without a context
\* gets a clone of the ancestor's handle (set_comp_ctx); no instance is built
adopt_comp_ctx(curr, anc, w) ==
    [node |-> [curr EXCEPT !.comp_ctx = IF curr.comp_ctx = NoHandle
                                        THEN anc.comp_ctx ELSE curr.comp_ctx],
     w |-> w]

\* NodeStdDiffer::on_comp: adopt the ancestor's context, then diff_rendered.
\* The observation records what the diff was given and what it left behind.
NodeStdDiffer_on_comp(parent, ci, ai, curr, anc, w) ==
    IF curr.comp_ctx = NoHandle /\ anc.comp_ctx = NoHandle
    THEN DR(curr, anc, ci, ai,
            Fail(Cb(w, "diff.on_comp", curr.ty, ci), "panic: ancestor.comp_ctx is None"))
    ELSE The({ The({ IF r.w.err # OK
                     THEN r
                     ELSE DR(r.curr, r.anc, r.ci, r.ai,
                             Ev(r.w, [ev |-> "comp_diff", id |-> a.node.comp_ctx,
                                      given |-> curr.input,
                                      snap |-> anc.comp_rendered,
                                      icomp |-> a.w.inst[a.node.comp_ctx].comp,
                                      iinput |-> a.w.inst[a.node.comp_ctx].input,
                                      curr |-> r.curr, anc |-> r.anc,
                                      r0 |-> a.w.inst[a.node.comp_ctx].renders,
                                      r1 |-> r.w.inst[a.node.comp_ctx].renders,
                                      cb0 |-> Len(w.cb) + 1, cb1 |-> Len(r.w.cb),
                                      ops0 |-> Len(w.ops), ops1 |-> Len(r.w.ops),
                                      domSame |-> r.w.dom = w.dom]))
                     : r \in {diff_rendered(a.node, anc, ci, ai, parent,
                                            Cb(a.w, "diff.on_comp", curr.ty, ci))} })
               : a \in {adopt_comp_ctx(curr, anc, w)} })

\* Option<N>::diff
DiffOption(curr, anc, ci, ai, parent, w) ==
    CASE curr.some /\ anc.some ->
            The({ DR([curr EXCEPT !.node = r.curr], [anc EXCEPT !.node = r.anc],
                     r.ci, r.ai, r.w)
                  : r \in {Diff(curr.node, anc.node, ci, ai, parent, w)} })
      [] curr.some /\ ~anc.some ->
            The({ IF r.w.err # OK
                  THEN DR([curr EXCEPT !.node = r.node], anc, r.index, ai, r.w)
                  ELSE The({ DR([curr EXCEPT !.node = r.node], anc, r.index, ai,
                                Ev(r.w, [ev |-> "added", index |-> ci,
                                         ops |-> SubSeq(r.w.ops, Len(w.ops) + 1,
                                                        Len(r.w.ops)),
                                         node |-> r.node, dom |-> r.w.dom, i1 |-> r.index,
                                         vops |-> SubSeq(direct.w.ops, Len(w.ops) + 1,
                                                         Len(direct.w.ops)),
                                         vnode |-> direct.node, vdom |-> direct.w.dom,
                                         vi1 |-> direct.index]))
                             : direct \in {Visit(curr.node, ci, AddV(parent), w)} })
                  : r \in {NodeStdDiffer_on_node_added(parent, ci, curr.node, w)} })
      [] ~curr.some /\ anc.some ->
            The({ IF r.w.err # OK
                  THEN DR(curr, [anc EXCEPT !.node = r.node], ci, r.index, r.w)
                  ELSE DR(curr, [anc EXCEPT !.node = r.node], ci, r.index,
                          Ev(r.w, [ev |-> "removed", parent |-> parent,
                                   top |-> Slots(anc.node), anc |-> r.node,
                                   kids |-> r.w.dom[parent].children]))
                  : r \in {NodeStdDiffer_on_node_removed(ai, anc.node, w)} })
      [] ~curr.some /\ ~anc.some -> DR(curr, anc, ci, ai, w)

\* a TagStatic::diff whose assertion is compiled out
debug_assert_tag_off(curr, anc) == TRUE

\* TagStatic::diff: debug_assert_eq!(self.tag, ancestor.tag); TagDyn::diff has
\* no assertion
debug_assert_tag(curr, anc) == curr.static => curr.tag = anc.tag

\* Node::diff of every node type
DiffNode(curr, anc, ci, ai, parent, w) ==
    CASE curr.kind = "pair" ->
            The({ IF r1.w.err # OK
                  THEN DR([curr EXCEPT !.l = r1.curr], [anc EXCEPT !.l = r1.anc],
                          r1.ci, r1.ai, r1.w)
                  ELSE The({ DR([curr EXCEPT !.l = r1.curr, !.r = r2.curr],
                                [anc EXCEPT !.l = r1.anc, !.r = r2.anc], r2.ci, r2.ai, r2.w)
                             : r2 \in {Diff(curr.r, anc.r, r1.ci, r1.ai, parent, r1.w)} })
                  : r1 \in {Diff(curr.l, anc.l, ci, ai, parent, w)} })
      [] curr.kind = "unit" -> DR(curr, anc, ci, ai, w)
      [] curr.kind = "opt" -> DiffOption(curr, anc, ci, ai, parent, w)
      [] curr.kind = "tag" ->
            IF ~debug_assert_tag(curr, anc)
            THEN DR(curr, anc, ci, ai, Fail(w, "panic: assertion failed (tag)"))
            ELSE The({ IF r.w.err # OK
                       THEN DR(r.curr, r.anc, ci, ai, r.w)
                       ELSE DR(r.curr, r.anc, ci + 1, ai + 1, r.w)
                       : r \in {NodeStdDiffer_on_tag(parent, ci, ai, curr, anc, w)} })
      [] curr.kind = "text" ->
            IF curr.static /\ curr.text # anc.text
            THEN DR(curr, anc, ci, ai, Fail(w, "panic: assertion failed (text)"))
            ELSE The({ IF r.w.err # OK
                       THEN DR(r.curr, r.anc, ci, ai, r.w)
                       ELSE DR(r.curr, r.anc, ci + 1, ai + 1, r.w)
                       : r \in {NodeStdDiffer_on_text(ci, ai, curr, anc, w)} })
      [] curr.kind = "comp" -> NodeStdDiffer_on_comp(parent, ci, ai, curr, anc, w)

\* Node::diff, observed: how far both indices moved and how many logical
\* nodes the current and the ancestor composition contribute
Diff(curr, anc, ci, ai, parent, w) ==
    The({ IF r.w.err # OK
          THEN r
          ELSE DR(r.curr, r.anc, r.ci, r.ai,
                  Ev(r.w, [ev |-> "diff", kind |-> curr.kind,
                           ci0 |-> ci, ci1 |-> r.ci, ai0 |-> ai, ai1 |-> r.ai,
                           nc |-> Count(r.curr), na |-> Count(anc),
                           cb0 |-> Len(w.cb), cb1 |-> Len(r.w.cb),
                           csome |-> curr.kind = "opt" /\ curr.some,
                           asome |-> anc.kind = "opt" /\ anc.some]))
          : r \in {DiffNode(curr, anc, ci, ai, parent, w)} })

(* ---------------------------------------------------------------------- *)
(* The application: App::new, App::set and component self-updates          *)
(* ---------------------------------------------------------------------- *)

VARIABLES
    node,       \* App.node: the tree retained as last rendered
    dropped,    \* the tree value the last pass dropped (old tree, or the failed new one)
    dom,        \* the backing document
    inst,       \* the live component instances
    nodes,      \* Differ.nodes of the keyed engine: path -> backing node
    params,     \* the parameters the retained tree was built from
    ops,        \* backing-resource calls of the last pass
    cb,         \* visitor/differ callbacks of the last pass
    ev,         \* observations of the last pass
    last        \* summary of the last pass

vars == <<node, dropped, dom, inst, nodes, params, ops, cb, ev, last>>

Range(s) == {s[i] : i \in DOMAIN s}

\* backing nodes one step from the set S: children and parents
Neighbours(d, S) ==
    (S \cup UNION {Range(d[h].children) : h \in S} \cup {d[h].parent : h \in S})
        \ {NoHandle}

RECURSIVE Closure(_, _)
Closure(d, S) == IF Neighbours(d, S) = S THEN S ELSE Closure(d, Neighbours(d, S))

\* dropping a tree releases its handles: backing nodes that are neither in
\* the document nor held by the retained tree are collected
DropHandles(d, n) ==
    LET keep == Closure(d, ({RootElem} \cup Range(Held(n))) \cap DOMAIN d)
    IN [h \in keep |-> d[h]]

\* dropping a tree drops its strong contexts: an instance lives while the
\* retained tree holds a context to it
DropInstances(i, n) == [id \in (DOMAIN i \cap CompCtxs(n)) |-> i[id]]

RECURSIVE Fresh(_, _)
\* no mounted component of the tree differs from its cached snapshot
Fresh(n, i) ==
    CASE n.kind = "pair" -> Fresh(n.l, i) /\ Fresh(n.r, i)
      [] n.kind = "unit" -> TRUE
      [] n.kind = "opt" -> IF n.some THEN Fresh(n.node, i) ELSE TRUE
      [] n.kind = "tag" -> Fresh(n.children, i)
      [] n.kind = "text" -> TRUE
      [] n.kind = "comp" ->
            /\ n.comp_rendered.st = "Rendered"
            /\ n.comp_ctx \in DOMAIN i
            /\ n.comp_rendered.comp = i[n.comp_ctx].comp
            /\ n.comp_rendered.input = i[n.comp_ctx].input
            /\ Fresh(n.comp_rendered.rendered, i)

World(d, i, fuel) ==
    [dom |-> d, inst |-> i, ops |-> <<>>, cb |-> <<>>, ev |-> <<>>, err |-> OK, fuel |-> fuel]

EmptyDoc == (RootElem :> NewElemRec("root"))

\* App::new(node, root_element)
App_new(p) ==
    Visit(RootRender(p), 0, AddV(RootElem), World(EmptyDoc, << >>, NoFault))

\* App::set(node)
App_set(p) ==
    Diff(RootRender(p), node, 0, 0, RootElem, World(dom, inst, NoFault))

Init ==
    \E p \in Params : \E r \in {App_new(p)} :
        /\ node = r.node
        /\ dropped = Unit
        /\ dom = r.w.dom
        /\ inst = r.w.inst
        /\ nodes = << >>
        /\ params = p
        /\ ops = r.w.ops
        /\ cb = r.w.cb
        /\ ev = r.w.ev
        /\ last = [kind |-> "new", ok |-> r.w.err = OK, err |-> r.w.err,
                   rebuild |-> FALSE, ci |-> r.index, ai |-> 0, nc |-> Count(r.node),
                   na |-> 0]

\* a faulty App::set that stores the new tree before looking at the result
Retained_new(r) == r.curr

\* a faulty App::set that never stores the new tree
Retained_anc(r) == r.anc

\* App::set: `self.node = node` runs only after `?` let the diff's Ok through;
\* on Err the App keeps the ancestor as the diff left it
Retained(r) == IF r.w.err = OK THEN r.curr ELSE r.anc

\* what a render pass with diff result r leaves behind: the retained tree, the
\* dropped tree and what dropping it releases, and the logs of the pass
Pass(p, r) ==
    \E kept \in {Retained(r)} :
        /\ node' = kept
        /\ dropped' = IF r.w.err = OK THEN r.anc ELSE r.curr
        /\ dom' = DropHandles(r.w.dom, kept)
        /\ inst' = DropInstances(r.w.inst, kept)
        /\ nodes' = nodes
        /\ params' = IF r.w.err = OK THEN p ELSE params
        /\ ops' = r.w.ops
        /\ cb' = r.w.cb
        /\ ev' = r.w.ev
        /\ last' = [kind |-> "set", ok |-> r.w.err = OK, err |-> r.w.err,
                    rebuild |-> RootRender(p) = RootRender(params) /\ Fresh(node, inst),
                    ci |-> r.ci, ai |-> r.ai, nc |-> Count(r.curr), na |-> Count(node)]

\* one render pass: the application builds a tree from p and hands it to App::set
AppSet(p) == \E r \in {App_set(p)} : Pass(p, r)

\* App::set in a browser that rejects the driver's (fuel+1)-th fallible call
App_set_rejecting(p, fuel) ==
    Diff(RootRender(p), node, 0, 0, RootElem, World(dom, inst, fuel))

\* one render pass that fails: App::set returns Err to the application
AppSetFault(p, fuel) ==
    \E r \in {App_set_rejecting(p, fuel)} : r.w.err # OK /\ Pass(p, r)

\* a component updates its own state between passes:
\* ctx.with_instance_mut(|i| i.comp = s)
CtxMutate(id, s) ==
    /\ id \in DOMAIN inst
    /\ s # inst[id].comp
    /\ inst[id].renders < MaxRenders
    /\ inst' = [inst EXCEPT ![id].comp = s]
    /\ UNCHANGED <<node, dropped, dom, nodes, params, ops, cb, ev, last>>

Next ==
    \/ \E p \in Params : AppSet(p)
    \/ \E id \in DOMAIN inst : \E s \in CompStates(inst[id].ty) : CtxMutate(id, s)

Spec == Init /\ [][Next]_vars

\* the same application in a browser that may reject driver calls
NextFault ==
    \/ \E p \in Params : AppSet(p)
    \/ \E id \in DOMAIN inst : \E s \in CompStates(inst[id].ty) : CtxMutate(id, s)
    \/ \E p \in Params : \E fuel \in 0..MaxFuel : AppSetFault(p, fuel)

SpecFault == Init /\ [][NextFault]_vars

(* ---------------------------------------------------------------------- *)
(* An application of one element whose attributes change                   *)
(* ---------------------------------------------------------------------- *)

\* the values an application can give the dynamic attribute key through the
\* From impls of AttrValue: bool, Option<String> None, &'static str, String
AttrVals(key) ==
    {AttrFromBool(TRUE), AttrFromBool(FALSE), AttrFromOptString(NoneStr),
     AttrStrV("x"), AttrStringV("x"), AttrStringV("y"), AttrStringV(key)}

\* the element's attribute lists: two dynamic entries around two static ones
AttrLists ==
    {<<AttrDyn("class", v1), AttrStr("lang", "en"), AttrTrue("hidden"), AttrDyn("id", v2)>> :
        v1 \in AttrVals("class"), v2 \in AttrVals("id")}

\* the tree the application builds: one childless element
AttrRender(l) == TagStatic("a", l, Unit)

\* App::new on the one-element tree
InitAttr ==
    \E l \in AttrLists :
        \E r \in {Visit(AttrRender(l), 0, AddV(RootElem), World(EmptyDoc, << >>, NoFault))} :
            /\ node = r.node
            /\ dropped = Unit
            /\ dom = r.w.dom
            /\ inst = r.w.inst
            /\ nodes = << >>
            /\ params = l
            /\ ops = r.w.ops
            /\ cb = r.w.cb
            /\ ev = r.w.ev
            /\ last = [kind |-> "new", ok |-> r.w.err = OK, err |-> r.w.err]

\* App::set on the one-element tree with the attribute list l
AttrSet(l) ==
    \E r \in {Diff(AttrRender(l), node, 0, 0, RootElem, World(dom, inst, NoFault))} :
        /\ node' = Retained(r)
        /\ dropped' = node
        /\ dom' = DropHandles(r.w.dom, Retained(r))
        /\ inst' = r.w.inst
        /\ nodes' = nodes
        /\ params' = l
        /\ ops' = r.w.ops
        /\ cb' = r.w.cb
        /\ ev' = r.w.ev
        /\ last' = [kind |-> "set", ok |-> r.w.err = OK, err |-> r.w.err]

NextAttr == \E l \in AttrLists : AttrSet(l)

SpecAttr == InitAttr /\ [][NextAttr]_vars

(* ---------------------------------------------------------------------- *)
(* An application of one element whose name, attribute and text change     *)
(* ---------------------------------------------------------------------- *)

\* what the application decides per render: the element's name, one
\* attribute's name and value, the text, and (fixed by the tree's type) which
\* of them are the static variants
TagParams ==
    [tstatic : BOOLEAN, tag : {"a", "b"},
     astatic : BOOLEAN, key : {"id", "class"}, val : {"x", "y"},
     xstatic : BOOLEAN, text : {"s", "t"}]

\* two renders are values of one Rust type
SameType(p, q) ==
    p.tstatic = q.tstatic /\ p.astatic = q.astatic /\ p.xstatic = q.xstatic

\* the tree the application builds: TagStatic::new or TagDyn::new around one
\* attribute entry and one text
TagRender(p) ==
    The({ IF p.tstatic
          THEN TagStatic(p.tag, <<attr>>, text)
          ELSE TagDyn(p.tag, <<attr>>, text)
          : attr \in {IF p.astatic THEN AttrStr(p.key, p.val)
                      ELSE AttrDyn(p.key, AttrStringV(p.val))},
            text \in {IF p.xstatic THEN TextStatic(p.text) ELSE TextDyn(p.text)} })

\* App::new on the one-element tree
InitTag ==
    \E p \in TagParams :
        \E r \in {Visit(TagRender(p), 0, AddV(RootElem), World(EmptyDoc, << >>, NoFault))} :
            /\ node = r.node
            /\ dropped = Unit
            /\ dom = r.w.dom
            /\ inst = r.w.inst
            /\ nodes = << >>
            /\ params = p
            /\ ops = r.w.ops
            /\ cb = r.w.cb
            /\ ev = r.w.ev
            /\ last = [kind |-> "new", ok |-> r.w.err = OK, err |-> r.w.err, prev |-> p]

\* App::set on the one-element tree rendered from p, in a build with debug
\* assertions; a panic ends the application
TagSet(p) ==
    /\ last.ok
    /\ SameType(p, params)
    /\ \E r \in {Diff(TagRender(p), node, 0, 0, RootElem, World(dom, inst, NoFault))} :
        /\ node' = Retained(r)
        /\ dropped' = node
        /\ dom' = DropHandles(r.w.dom, Retained(r))
        /\ inst' = r.w.inst
        /\ nodes' = nodes
        /\ params' = p
        /\ ops' = r.w.ops
        /\ cb' = r.w.cb
        /\ ev' = r.w.ev
        /\ last' = [kind |-> "set", ok |-> r.w.err = OK, err |-> r.w.err, prev |-> params]

NextTag == \E p \in TagParams : TagSet(p)

SpecTag == InitTag /\ [][NextTag]_vars

(* ---------------------------------------------------------------------- *)
(* Borrows of a component instance                                         *)
(* ---------------------------------------------------------------------- *)

\* the component contexts of the application
CellIds == 1..MaxCells

\* the borrows of an instance's RefCell that are alive: params is the stack
\* of calls that hold one, a frame per Ref ("ref") or RefMut ("mut")
Borrowed(stack, id, modes) ==
    \E k \in 1..Len(stack) : stack[k].id = id /\ stack[k].mode \in modes

\* the result of an access: the instances and what the caller gets
Access(cells, result) == [cells |-> cells, result |-> result]

\* a faulty with_instance_mut that reaches the instance past the RefCell
CompCtx_with_instance_mut_unchecked(cells, stack, id, s) ==
    IF ~cells[id].alive
    THEN Access(cells, "None")
    ELSE Access([cells EXCEPT ![id].comp = s], "Some")

\* a faulty with_instance_mut that unwraps the upgraded handle
CompCtx_with_instance_mut_unwrap(cells, stack, id, s) ==
    IF ~cells[id].alive
    THEN Access(cells, "panic: unwrap on None")
    ELSE IF Borrowed(stack, id, {"ref", "mut"})
         THEN Access(cells, "panic: already borrowed")
         ELSE Access([cells EXCEPT ![id].comp = s], "Some")

\* CompCtx::with_instance_mut(|i| i.comp = s): upgrade, borrow_mut, f
CompCtx_with_instance_mut(cells, stack, id, s) ==
    IF ~cells[id].alive
    THEN Access(cells, "None")
    ELSE IF Borrowed(stack, id, {"ref", "mut"})
         THEN Access(cells, "panic: already borrowed")
         ELSE Access([cells EXCEPT ![id].comp = s], "Some")

\* two contexts whose instances were built by StrongCompCtx::new
InitCell ==
    /\ node = <<>>
    /\ dropped = <<>>
    /\ dom = EmptyDoc
    /\ inst = [id \in CellIds |-> [comp |-> 0, alive |-> TRUE]]
    /\ nodes = << >>
    /\ params = <<>>
    /\ ops = <<>> /\ cb = <<>> /\ ev = <<>>
    /\ last = [kind |-> "new", id |-> NoHandle, result |-> "Some"]

\* the process has not panicked
Running == last.result \in {"Some", "None"}

\* visit_rendered / diff_rendered up to the call of render: instance_mut()
\* is taken and held while the application's render runs
RenderHolds(id) ==
    /\ Running /\ Len(params) < MaxDepth /\ inst[id].alive
    /\ IF Borrowed(params, id, {"ref", "mut"})
       THEN /\ params' = params
            /\ last' = [kind |-> "instance_mut", id |-> id,
                        result |-> "panic: already borrowed"]
       ELSE /\ params' = Append(params, [id |-> id, mode |-> "mut"])
            /\ last' = [kind |-> "instance_mut", id |-> id, result |-> "Some"]
    /\ UNCHANGED <<node, dropped, dom, inst, nodes, ops, cb, ev>>

\* CompCtx::with_instance up to the call of f: the Ref is held while f runs
WithInstance(id) ==
    /\ Running /\ Len(params) < MaxDepth
    /\ IF ~inst[id].alive
       THEN /\ params' = params
            /\ last' = [kind |-> "with_instance", id |-> id, result |-> "None"]
       ELSE IF Borrowed(params, id, {"mut"})
       THEN /\ params' = params
            /\ last' = [kind |-> "with_instance", id |-> id,
                        result |-> "panic: already mutably borrowed"]
       ELSE /\ params' = Append(params, [id |-> id, mode |-> "ref"])
            /\ last' = [kind |-> "with_instance", id |-> id, result |-> "Some"]
    /\ UNCHANGED <<node, dropped, dom, inst, nodes, ops, cb, ev>>

\* the code that runs (render, a closure of with_instance, or the application
\* between passes) calls ctx.with_instance_mut(|i| i.comp = s)
WithInstanceMut(id, s) ==
    /\ Running
    /\ \E a \in {CompCtx_with_instance_mut(inst, params, id, s)} :
          /\ inst' = a.cells
          /\ last' = [kind |-> "with_instance_mut", id |-> id, result |-> a.result]
    /\ UNCHANGED <<node, dropped, dom, nodes, params, ops, cb, ev>>

\* the innermost call that holds a borrow returns and its guard is dropped
Return ==
    /\ Running /\ Len(params) > 0
    /\ params' = SubSeq(params, 1, Len(params) - 1)
    /\ last' = [kind |-> "return", id |-> params[Len(params)].id, result |-> "Some"]
    /\ UNCHANGED <<node, dropped, dom, inst, nodes, ops, cb, ev>>

\* the last StrongCompCtx of an instance is dropped; the CompCtx handles the
\* component gave away stay behind as dangling Weak references
DropCtx(id) ==
    /\ Running /\ inst[id].alive
    /\ ~Borrowed(params, id, {"ref", "mut"})
    /\ inst' = [inst EXCEPT ![id].alive = FALSE]
    /\ last' = [kind |-> "drop", id |-> id, result |-> "Some"]
    /\ UNCHANGED <<node, dropped, dom, nodes, params, ops, cb, ev>>

NextCell ==
    \/ \E id \in CellIds : RenderHolds(id)
    \/ \E id \in CellIds : WithInstance(id)
    \/ \E id \in CellIds : \E s \in 0..MaxState : WithInstanceMut(id, s)
    \/ Return
    \/ \E id \in CellIds : DropCtx(id)

SpecCell == InitCell /\ [][NextCell]_vars

(* ---------------------------------------------------------------------- *)
(* Differ::schedule and the animation-frame callback                       *)
(* ---------------------------------------------------------------------- *)

\* closures that schedule nothing: one that stores a tree in differ.last (as
\* the closure of Context::start does) and one that leaves it alone
Leaves == [sets : BOOLEAN, then : {<<>>}]

\* the closures the application passes to schedule: a leaf, or one that calls
\* differ.schedule(leaf) when it runs
Closures == Leaves \cup {[sets |-> b, then |-> <<l>>] : b \in BOOLEAN, l \in Leaves}

\* the number of schedule calls a closure stands for
Weight(f) == 1 + Len(f.then)

\* the scheduler's part of Differ: schedule_queue, raf, whether last is Some,
\* and the logs of the closures scheduled and run (a closure is named by its
\* position in the order of the schedule calls); requested counts the calls
\* of request_animation_frame and frames the callbacks the browser has begun
Sched(queue, l, sched, ran) ==
    [queue |-> queue, raf |-> l.raf, tree |-> l.tree,
     requested |-> l.requested, frames |-> l.frames,
     sched |-> sched, ran |-> ran]

\* Differ::schedule: push the closure; request a frame when none is requested
\* (the log entry names the request that is pending when schedule returns)
Differ_schedule(st, f) ==
    The({ [st EXCEPT !.queue = Append(@, [id |-> Len(st.sched) + 1, f |-> f]),
                     !.sched = Append(@, [f |-> f, pending |-> st.raf, req |-> n]),
                     !.requested = n,
                     !.raf = TRUE]
          : n \in {IF st.raf THEN st.requested ELSE st.requested + 1} })

\* f.call_box((&mut *differ,)) for the queued closure q
CallBox(st, q) ==
    The({ IF Len(q.f.then) = 1 THEN Differ_schedule(st1, q.f.then[1]) ELSE st1
          : st1 \in {[st EXCEPT !.ran = Append(@, q.id),
                                !.tree = @ \/ q.f.sets]} })

RECURSIVE Drain(_, _, _)
\* for f in queue.drain(..) { f.call_box(..) }
Drain(st, queue, i) ==
    IF i > Len(queue) THEN st ELSE Drain(CallBox(st, queue[i]), queue, i + 1)

\* the callback given to request_animation_frame, up to the take of last:
\* raf = None; queue = mem::replace(&mut schedule_queue, Vec::new()); run the
\* closures; schedule_queue = queue, the drained vector
FrameCallback(st) ==
    [Drain([st EXCEPT !.raf = FALSE, !.queue = <<>>, !.frames = @ + 1], st.queue, 1)
        EXCEPT !.queue = <<>>]

\* Context::new
InitSched ==
    /\ node = <<>>
    /\ dropped = <<>>
    /\ dom = EmptyDoc
    /\ inst = << >>
    /\ nodes = << >>
    /\ params = <<>>
    /\ ops = <<>> /\ cb = <<>> /\ ev = <<>>
    /\ last = [kind |-> "new", raf |-> FALSE, tree |-> FALSE, panicked |-> FALSE,
               requested |-> 0, frames |-> 0]

\* the application calls differ.borrow_mut().schedule(f) between frames
Schedule(f) ==
    /\ ~last.panicked
    /\ Len(cb) + Weight(f) <= MaxScheduled
    /\ \E st \in {Differ_schedule(Sched(params, last, cb, ev), f)} :
          /\ params' = st.queue
          /\ cb' = st.sched
          /\ ev' = st.ran
          /\ last' = [kind |-> "schedule", raf |-> st.raf, tree |-> st.tree,
                      panicked |-> FALSE,
                      requested |-> st.requested, frames |-> st.frames]
    /\ UNCHANGED <<node, dropped, dom, inst, nodes, ops>>

\* the browser runs the requested animation frame: the closures, then
\* differ.last.take().expect("last was None") and the store of the tree (no
\* widget is mounted); the panic leaves the Differ borrowed
AnimationFrame ==
    /\ ~last.panicked
    /\ last.raf
    /\ \E st \in {FrameCallback(Sched(params, last, cb, ev))} :
          /\ params' = st.queue
          /\ cb' = st.sched
          /\ ev' = st.ran
          /\ last' = [kind |-> "frame", raf |-> st.raf, tree |-> st.tree,
                      panicked |-> ~st.tree,
                      requested |-> st.requested, frames |-> st.frames]
    /\ UNCHANGED <<node, dropped, dom, inst, nodes, ops>>

NextSched ==
    \/ \E f \in Closures : Schedule(f)
    \/ AnimationFrame

SpecSched == InitSched /\ [][NextSched]_vars

(* ---------------------------------------------------------------------- *)
(* Properties                                                              *)
(* ---------------------------------------------------------------------- *)

Events(name) == {i \in DOMAIN ev : ev[i].ev = name}

RECURSIVE Logical(_)
\* the logical tag/text nodes a composition contributes to its parent, in order
Logical(n) ==
    CASE n.kind = "pair" -> Logical(n.l) \o Logical(n.r)
      [] n.kind = "unit" -> <<>>
      [] n.kind = "opt" -> IF n.some THEN Logical(n.node) ELSE <<>>
      [] n.kind = "tag" -> <<n>>
      [] n.kind = "text" -> <<n>>
      [] n.kind = "comp" ->
            IF n.comp_rendered.st = "Rendered" THEN Logical(n.comp_rendered.rendered) ELSE <<>>

RECURSIVE Backs(_, _, _)
\* the backing children of parent are exactly the logical nodes of n, in order
Backs(d, parent, n) ==
    LET ls == Logical(n)
    IN /\ parent \in DOMAIN d
       /\ Len(d[parent].children) = Len(ls)
       /\ \A i \in 1..Len(ls) :
            /\ d[parent].children[i] = ls[i].store
            /\ IF ls[i].kind = "tag"
               THEN /\ d[ls[i].store].kind = "elem"
                    /\ d[ls[i].store].name = ls[i].tag
                    /\ Backs(d, ls[i].store, ls[i].children)
               ELSE /\ d[ls[i].store].kind = "text"
                    /\ d[ls[i].store].data = ls[i].text

RECURSIVE Bare(_)
\* a tree without what a traversal writes into it: stores, contexts, snapshots
Bare(n) ==
    CASE n.kind = "pair" -> [kind |-> "pair", l |-> Bare(n.l), r |-> Bare(n.r)]
      [] n.kind = "unit" -> n
      [] n.kind = "opt" -> [kind |-> "opt", some |-> n.some,
                            node |-> IF n.some THEN Bare(n.node) ELSE Unit]
      [] n.kind = "tag" -> [n EXCEPT !.children = Bare(n.children), !.store = NoHandle]
      [] n.kind = "text" -> [n EXCEPT !.store = NoHandle]
      [] n.kind = "comp" -> [kind |-> "comp", ty |-> n.ty]

RECURSIVE Transplanted(_, _, _)
\* c was diffed against a: every tag/text present in both holds the handle the
\* ancestor a held before, and the ancestor b left behind holds none of them
Transplanted(c, a, b) ==
    CASE c.kind = "pair" -> Transplanted(c.l, a.l, b.l) /\ Transplanted(c.r, a.r, b.r)
      [] c.kind = "unit" -> TRUE
      [] c.kind = "opt" ->
            IF c.some /\ a.some THEN Transplanted(c.node, a.node, b.node) ELSE TRUE
      [] c.kind = "tag" ->
            /\ a.store # NoHandle
            /\ c.store = a.store
            /\ b.store = NoHandle
            /\ Transplanted(c.children, a.children, b.children)
      [] c.kind = "text" -> a.store # NoHandle /\ c.store = a.store /\ b.store = NoHandle
      [] c.kind = "comp" -> TRUE

\* a comp_diff observation whose live instance equals the ancestor's snapshot
EqualSnapshot(e) == e.icomp = e.snap.comp /\ e.iinput = e.snap.input

\* C1: after App::new and after every successful App::set, the backing
\* children under every parent element are exactly the logical tag/text
\* nodes of the retained tree, in the same order.
C1_BackingMatchesTree == last.ok => Backs(dom, RootElem, node)

\* C2: a diff of a CompNode built with an input different from the input
\* cached in the ancestor's snapshot (state unchanged) calls render exactly
\* once and stores a snapshot holding the new input.
C2_InputChangeRerenders ==
    \A i \in Events("comp_diff") :
        LET e == ev[i]
        IN (e.given.some /\ e.given.v # e.snap.input /\ e.icomp = e.snap.comp)
              => /\ e.r1 = e.r0 + 1
                 /\ e.curr.comp_rendered.st = "Rendered"
                 /\ e.curr.comp_rendered.input = e.given.v

\* C3: a diff in which the instance's state and input equal the ancestor's
\* snapshot calls render zero times; a component rendered once by its visit
\* still has exactly one render call after any such diff.
C3_EqualDiffNeverRenders ==
    \A i \in Events("comp_diff") :
        LET e == ev[i]
        IN EqualSnapshot(e) => /\ e.r1 = e.r0
                               /\ (e.r0 = 1 => inst[e.id].renders = 1 \/ e.id \notin DOMAIN inst)

C3_Witness ==
    \E i \in Events("comp_diff") :
        /\ EqualSnapshot(ev[i])
        /\ ev[i].r0 = 1
        /\ ev[i].id \in DOMAIN inst
        /\ inst[ev[i].id].renders = 1
        /\ last.kind = "set" /\ last.rebuild

\* C4: when the instance's state no longer equals the state cloned into the
\* snapshot, the next diff calls render once, caches the new rendering of the
\* current state and input, and diffs it against the ancestor's rendering.
C4_StateChangeRerenders ==
    \A i \in Events("comp_diff") :
        LET e == ev[i]
        IN e.icomp # e.snap.comp
              => /\ e.r1 = e.r0 + 1
                 /\ e.curr.comp_rendered.st = "Rendered"
                 /\ e.curr.comp_rendered.comp = e.icomp
                 /\ e.curr.comp_rendered.input = e.iinput
                 /\ Bare(e.curr.comp_rendered.rendered)
                        = Bare(CompRender(e.curr.ty, e.icomp, e.iinput))
                 /\ Transplanted(e.curr.comp_rendered.rendered, e.snap.rendered,
                                 e.anc.comp_rendered.rendered)
                 /\ e.cb1 > e.cb0

C4_Witness ==
    \E i \in Events("comp_diff") :
        /\ ev[i].icomp # ev[i].snap.comp
        /\ ev[i].iinput = ev[i].snap.input
        /\ ev[i].given.some /\ ev[i].given.v = ev[i].snap.input
        /\ ev[i].r1 = ev[i].r0 + 1

\* C5: when the instance equals the ancestor's snapshot, the snapshot moves
\* into the current node unchanged, the ancestor is left Taken, and no
\* callback and no backing-resource call is made for the rendered subtree.
C5_ReuseMovesSnapshot ==
    \A i \in Events("comp_diff") :
        LET e == ev[i]
        IN EqualSnapshot(e)
              => /\ e.curr.comp_rendered = e.snap
                 /\ e.anc.comp_rendered = Taken
                 /\ e.cb1 = e.cb0
                 /\ e.ops1 = e.ops0
                 /\ e.domSame

C5_Witness ==
    \E i \in Events("comp_diff") :
        /\ EqualSnapshot(ev[i])
        /\ ev[i].curr.comp_rendered = ev[i].snap
        /\ Len(Held(ev[i].snap.rendered)) >= 2

\* C6: diffing a tree against a structurally equal rebuild of itself, with no
\* component changed since its snapshot, makes no backing-resource call.
C6_EqualRebuildNoCalls == (last.kind = "set" /\ last.rebuild) => (last.ok /\ ops = <<>>)

C6_Witness ==
    /\ last.kind = "set" /\ last.rebuild /\ last.ok
    /\ params.cls.v # "Null"
    /\ params.par.some
    /\ ops = <<>>
    /\ Len(cb) > 4

\* C7: a visit advances the index by the number of logical nodes the
\* composition contributes, and a diff advances curr_index and
\* ancestor_index by the counts of the current and ancestor composition.
C7_IndexAdvancesByCount ==
    /\ \A i \in Events("visit") : ev[i].i1 - ev[i].i0 = ev[i].n
    /\ \A i \in Events("diff") :
        /\ ev[i].ci1 - ev[i].ci0 = ev[i].nc
        /\ ev[i].ai1 - ev[i].ai0 = ev[i].na

\* C8: diffing Some(node) against None makes the same backing-resource
\* calls, the same driver-store writes and the same index movement as
\* visiting the node directly at that index under that parent.
C8_AddedEqualsVisit ==
    \A i \in Events("added") :
        LET e == ev[i]
        IN /\ e.ops = e.vops
           /\ e.node = e.vnode
           /\ e.dom = e.vdom
           /\ e.i1 = e.vi1

C8_Witness ==
    \E i \in Events("added") :
        /\ ev[i].index > 0
        /\ \E k \in DOMAIN ev[i].ops : ev[i].ops[k].op = "set_attribute"
        /\ \E k \in DOMAIN ev[i].ops : ev[i].ops[k].op = "insert_before" /\ ev[i].ops[k].i > 0
        /\ ev[i].ops = ev[i].vops

\* C9: diffing None against Some(node) detaches the subtree and leaves no
\* driver-store slot of the removed subtree holding a backing handle.
C9_RemovedReleasesSlots ==
    \A i \in Events("removed") :
        /\ \A k \in DOMAIN ev[i].top : ev[i].top[k] \notin Range(ev[i].kids)
        /\ Held(ev[i].anc) = <<>>

\* C10: a diff of a tag or text present in both trees moves the ancestor's
\* existing handle into the current slot and empties the ancestor's slot, and
\* no handle is ever held by two slots.
C10_HandleMovesNotCopies ==
    /\ \A i \in Events("slot_moved") :
        /\ ev[i].before # NoHandle
        /\ ev[i].existed
        /\ ev[i].after = ev[i].before
        /\ ev[i].left = NoHandle
    /\ LET held == Held(node) \o Held(dropped)
       IN Cardinality(Range(held)) = Len(held)

C10_Witness ==
    /\ last.kind = "set" /\ last.ok
    /\ \E i \in Events("slot_moved") : ev[i].kind = "tag"
    /\ \E i \in Events("slot_moved") : ev[i].kind = "text"
    /\ Len(Held(node)) >= 4

(* ---------------------------------------------------------------------- *)
(* Keys, identifiers and paths (path.rs)                                   *)
(* ---------------------------------------------------------------------- *)

KeyU64(n) == [kind |-> "U64", n |-> n, s |-> "", b |-> <<>>]

KeyI64(n) == [kind |-> "I64", n |-> n, s |-> "", b |-> <<>>]

\* Key::String(Rc<String>): an owned string
KeyString(str) == [kind |-> "String", n |-> 0, s |-> str, b |-> <<>>]

\* Key::Str(&'static str): a borrowed string
KeyStr(str) == [kind |-> "Str", n |-> 0, s |-> str, b |-> <<>>]

KeyBytes(bytes) == [kind |-> "Bytes", n |-> 0, s |-> "", b |-> bytes]

\* the UTF-8 bytes of the strings the model uses
StrBytes(str) ==
    CASE str = "" -> <<>>
      [] str = "a" -> <<97>>
      [] str = "b" -> <<98>>

\* Hasher::write_u64 / write_i64 of a small non-negative value: eight bytes
Write64(n) == <<n, 0, 0, 0, 0, 0, 0, 0>>

\* Hasher::write_usize on the 32-bit target: four bytes
WriteUsize(n) == <<n, 0, 0, 0>>

\* impl Hash for str: the bytes, then 0xff
HashStr(str) == StrBytes(str) \o <<255>>

\* a faulty Key::hash that gives each variant a tag of its own
KeyHash_tags(k) ==
    CASE k.kind = "U64" -> <<1>> \o Write64(k.n)
      [] k.kind = "I64" -> <<2>> \o Write64(k.n)
      [] k.kind = "String" -> <<3>> \o HashStr(k.s)
      [] k.kind = "Str" -> <<5>> \o HashStr(k.s)
      [] k.kind = "Bytes" -> <<4>> \o WriteUsize(Len(k.b)) \o k.b

\* impl Hash for Key: the bytes written to the hasher
KeyHash(k) ==
    CASE k.kind = "U64" -> <<1>> \o Write64(k.n)
      [] k.kind = "I64" -> <<2>> \o Write64(k.n)
      [] k.kind = "String" -> <<3>> \o HashStr(k.s)
      [] k.kind = "Str" -> <<3>> \o HashStr(k.s)
      [] k.kind = "Bytes" -> <<4>> \o WriteUsize(Len(k.b)) \o k.b

\* impl PartialEq for Key
KeyEq(x, y) ==
    CASE x.kind = "U64" /\ y.kind = "U64" -> x.n = y.n
      [] x.kind = "I64" /\ y.kind = "I64" -> x.n = y.n
      [] x.kind = "String" /\ y.kind = "String" -> x.s = y.s
      [] x.kind = "String" /\ y.kind = "Str" -> x.s = y.s
      [] x.kind = "Str" /\ y.kind = "String" -> x.s = y.s
      [] x.kind = "Str" /\ y.kind = "Str" -> x.s = y.s
      [] x.kind = "Bytes" /\ y.kind = "Bytes" -> x.b = y.b
      [] OTHER -> FALSE

\* Ident::Key(key)
IdentKey(k) == [id |-> "Key", key |-> k, index |-> 0]

\* Ident::Index(index)
IdentIndex(n) == [id |-> "Index", key |-> KeyStr(""), index |-> n]

\* #[derive(PartialEq)] for Ident
IdentEq(x, y) ==
    /\ x.id = y.id
    /\ IF x.id = "Key" THEN KeyEq(x.key, y.key) ELSE x.index = y.index

\* #[derive(Hash)] for Ident: the discriminant, then the payload
IdentHash(x) ==
    IF x.id = "Key" THEN Write64(0) \o KeyHash(x.key) ELSE Write64(1) \o WriteUsize(x.index)

\* Path::new(parent, ident); an Option is a sequence of length 0 or 1
PathNew(parent, ident) == [parent |-> parent, ident |-> ident]

RECURSIVE PathEq(_, _)
\* #[derive(PartialEq)] for Path / PathIntern
PathEq(p, q) ==
    /\ Len(p.parent) = Len(q.parent)
    /\ (Len(p.parent) = 1 => PathEq(p.parent[1], q.parent[1]))
    /\ IdentEq(p.ident, q.ident)

RECURSIVE PathHash(_)
\* #[derive(Hash)] for Path / PathIntern
PathHash(p) ==
    (IF Len(p.parent) = 0 THEN Write64(0) ELSE Write64(1) \o PathHash(p.parent[1]))
        \o IdentHash(p.ident)

RECURSIVE PathFromIter(_)
\* impl FromIterator<Ident> for Option<Path>
PathFromIter(s) ==
    IF Len(s) = 0
    THEN <<>>
    ELSE <<PathNew(PathFromIter(SubSeq(s, 1, Len(s) - 1)), s[Len(s)])>>

\* PathFrame::new
PathFrame_new == <<[path |-> <<>>, ident |-> IdentKey(KeyStr(""))]>>

\* PathFrame::add_key / add_index: a frame whose parent is the frame below it
PathFrame_add(chain, ident) == Append(chain, [path |-> <<>>, ident |-> ident])

\* what the build makes of the write through `&self.path as *const _ as *mut _`
\* in PathFrame::path: the read after it sees the written path, or still None
WriteOutcomes == {"written", "stale"}

RECURSIVE PathFrame_path(_, _, _)
\* PathFrame::path of the i-th frame of a chain: the cached path, or the
\* parent's path extended by the frame's ident, cached by the unchecked write
PathFrame_path(chain, i, outcome) ==
    IF Len(chain[i].path) = 1
    THEN [chain |-> chain, path |-> chain[i].path, err |-> OK]
    ELSE The({ IF par.err # OK
               THEN par
               ELSE IF outcome = "stale"
                    THEN [chain |-> par.chain, path |-> <<>>,
                          err |-> "panic: unwrap on None"]
                    ELSE [chain |-> [par.chain EXCEPT
                                        ![i].path = <<PathNew(par.path, chain[i].ident)>>],
                          path |-> <<PathNew(par.path, chain[i].ident)>>, err |-> OK]
               : par \in {IF i = 1
                          THEN [chain |-> chain, path |-> <<>>, err |-> OK]
                          ELSE PathFrame_path(chain, i - 1, outcome)} })

\* the keys of the checks: every variant, two values each
Keys ==
    {KeyU64(n) : n \in 0..MaxKeyInt} \cup {KeyI64(n) : n \in 0..MaxKeyInt}
        \cup {KeyString(str) : str \in {"a", "b"}} \cup {KeyStr(str) : str \in {"a", "b"}}
        \cup {KeyBytes(<<>>), KeyBytes(<<97>>)}

\* the identifiers of the path checks
Idents ==
    {IdentKey(KeyStr("a")), IdentKey(KeyString("a")), IdentKey(KeyString("b"))}
        \cup {IdentIndex(n) : n \in 1..MaxKeyInt}

\* identifier sequences of length 1..MaxPathLen
IdentSeqs == UNION {[1..n -> Idents] : n \in 1..MaxPathLen}

RECURSIVE FrameChain(_)
\* the frames a traversal stacks up for the identifier sequence s
FrameChain(s) ==
    IF Len(s) = 0
    THEN PathFrame_new
    ELSE PathFrame_add(FrameChain(SubSeq(s, 1, Len(s) - 1)), s[Len(s)])

\* a program that compares three keys, or builds two paths in three ways
InitPath ==
    /\ params \in [kind : {"keys"}, a : Keys, b : Keys, c : Keys]
                     \cup [kind : {"paths"}, s : IdentSeqs, t : IdentSeqs]
    /\ last = [done |-> FALSE]
    /\ node = Unit /\ dropped = Unit /\ dom = EmptyDoc /\ inst = << >> /\ nodes = << >>
    /\ ops = <<>> /\ cb = <<>> /\ ev = <<>>

\* a == b, hash(a) for the three keys
KeyCompare ==
    /\ params.kind = "keys" /\ ~last.done
    /\ last' = [done |-> TRUE,
                eq |-> [x \in {"a", "b", "c"} |-> [y \in {"a", "b", "c"} |->
                            KeyEq(params[x], params[y])]],
                hash |-> [x \in {"a", "b", "c"} |-> KeyHash(params[x])]]
    /\ UNCHANGED <<node, dropped, dom, inst, nodes, params, ops, cb, ev>>

\* s and t collected from iterators; s also stacked up as frames below the
\* root frame and materialized twice with PathFrame::path
PathBuild(outcome) ==
    /\ params.kind = "paths" /\ ~last.done
    /\ \E first \in {PathFrame_path(FrameChain(params.s), Len(params.s) + 1, outcome)} :
       \E second \in {PathFrame_path(first.chain, Len(params.s) + 1, outcome)} :
          last' = [done |-> TRUE,
                   eq |-> PathEq(PathFromIter(params.s)[1], PathFromIter(params.t)[1]),
                   hs |-> PathHash(PathFromIter(params.s)[1]),
                   ht |-> PathHash(PathFromIter(params.t)[1]),
                   rooted |-> PathFromIter(<<IdentKey(KeyStr(""))>> \o params.s)[1],
                   first |-> first, second |-> second]
    /\ UNCHANGED <<node, dropped, dom, inst, nodes, params, ops, cb, ev>>

NextPath ==
    \/ KeyCompare
    \/ \E outcome \in WriteOutcomes : PathBuild(outcome)

SpecPath == InitPath /\ [][NextPath]_vars

(* ---------------------------------------------------------------------- *)
(* The keyed engine (diff.rs)                                              *)
(* ---------------------------------------------------------------------- *)

\* Child::Text(text); `at` is bookkeeping of the model: the path the child
\* was added under, <<>> while it has not been added
ChildText(text) ==
    [kind |-> "Text", text |-> text, ty |-> "", children |-> <<>>, at |-> <<>>,
     listeners |-> {}, by |-> <<>>]

\* Child::Node(Node { ty, children, event_listeners, .. }) without attributes;
\* listeners are the event types the node has a listener for, and `by` is
\* bookkeeping of the model: the path of the widget whose render built the node
ChildNodeOn(ty, children, listeners) ==
    [kind |-> "Node", text |-> "", ty |-> ty, children |-> children, at |-> <<>>,
     listeners |-> listeners, by |-> <<>>]

\* Child::Node(Node { ty, children, .. }) without attributes and listeners
ChildNode(ty, children) == ChildNodeOn(ty, children, {})

\* one element of Node.children as diff.rs reads it: (Option<Key>, Child)
ChildEntry(key, child) == [key |-> key, child |-> child]

\* a faulty lookup that takes the first keyed child whatever its key
KeyedChild_first(n, key) ==
    IF \E i \in 1..Len(n.children) : Len(n.children[i].key) = 1
    THEN <<n.children[CHOOSE i \in 1..Len(n.children) :
                /\ Len(n.children[i].key) = 1
                /\ \A j \in 1..(i - 1) : Len(n.children[j].key) = 0].child>>
    ELSE <<>>

\* last.keyed_children.get(key).and_then(|i| last.children.get_mut(i))
KeyedChild(n, key) ==
    IF \E i \in 1..Len(n.children) :
          Len(n.children[i].key) = 1 /\ KeyEq(n.children[i].key[1], key)
    THEN <<n.children[CHOOSE i \in 1..Len(n.children) :
                Len(n.children[i].key) = 1 /\ KeyEq(n.children[i].key[1], key)].child>>
    ELSE <<>>

\* the owned path of a frame chain: its identifiers from the root frame down
to_path(pf) == PathFromIter([i \in 1..Len(pf) |-> pf[i].ident])[1]

\* HashMap<Path, web::Node>::get
NodesGet(m, p) ==
    IF \E q \in DOMAIN m : PathEq(q, p)
    THEN m[CHOOSE q \in DOMAIN m : PathEq(q, p)]
    ELSE NoHandle

\* HashMap<Path, web::Node>::remove
NodesRemove(m, p) == [q \in {q \in DOMAIN m : ~PathEq(q, p)} |-> m[q]]

\* HashMap<Path, web::Node>::insert
NodesInsert(m, p, h) == (p :> h) @@ NodesRemove(m, p)

(* ---------------------------------------------------------------------- *)
(* ListenerManager: listeners by (path, event type) and root listeners     *)
(* ---------------------------------------------------------------------- *)

\* the event types the application listens to
EventTypes == {"click", "input"}

\* the paths the application registers listeners at: the root and its child
\* keyed "a", named once by a &str key and once by an equal String key
ListenPaths ==
    {to_path(PathFrame_new),
     to_path(PathFrame_add(PathFrame_new, IdentKey(KeyStr("a")))),
     to_path(PathFrame_add(PathFrame_new, IdentKey(KeyString("a"))))}

\* the widgets listeners belong to: the root and its child
WidgetPaths ==
    {to_path(PathFrame_new),
     to_path(PathFrame_add(PathFrame_new, IdentKey(KeyStr("a"))))}

\* Box<Listener>: the closure id and the event type of event_type_id()
Listeners == [ty : EventTypes, id : 1..MaxListeners]

\* the keys of the listeners map equal to (path, type): none or one
ListenerKeys(m, path, ty) == {k \in DOMAIN m : PathEq(k.path, path) /\ k.ty = ty}

\* the count stored for a type in root_listeners, 0 without an entry
RootCount(m, ty) == IF ty \in DOMAIN m THEN m[ty].count ELSE 0

\* ListenerManager::new; attached are the listeners on the root DOM node
ListenerManager_new ==
    [listeners |-> << >>, root_listeners |-> << >>, attached |-> << >>, err |-> OK]

\* the Vacant arm of register: count the entry for its type, adding the root
\* listener for the first one, then insert it
ListenerManager_insert(lm, path, widget_path, listener) ==
    The({ [lm1 EXCEPT !.listeners =
                  ([path |-> path, ty |-> listener.ty]
                      :> [widget_path |-> widget_path, listener |-> listener]) @@ @]
          : lm1 \in {IF listener.ty \in DOMAIN lm.root_listeners
                     THEN [lm EXCEPT !.root_listeners[listener.ty].count = @ + 1]
                     ELSE The({ [lm EXCEPT
                                   !.root_listeners =
                                       (listener.ty :> [count |-> 1, handle |-> h]) @@ @,
                                   !.attached = (h :> listener.ty) @@ @]
                                : h \in {FreshHandle(lm.attached)} })} })

\* a faulty register that counts a replaced entry again
ListenerManager_register_recount(lm, path, widget_path, listener) ==
    IF ListenerKeys(lm.listeners, path, listener.ty) # {}
    THEN [lm EXCEPT !.listeners =
              [k \in DOMAIN @ |->
                  IF k \in ListenerKeys(lm.listeners, path, listener.ty)
                  THEN [widget_path |-> widget_path, listener |-> listener]
                  ELSE @[k]],
                    !.root_listeners[listener.ty].count = @ + 1]
    ELSE ListenerManager_insert(lm, path, widget_path, listener)

\* ListenerManager::register
ListenerManager_register(lm, path, widget_path, listener) ==
    IF ListenerKeys(lm.listeners, path, listener.ty) # {}
    THEN [lm EXCEPT !.listeners =
              [k \in DOMAIN @ |->
                  IF k \in ListenerKeys(lm.listeners, path, listener.ty)
                  THEN [widget_path |-> widget_path, listener |-> listener]
                  ELSE @[k]]]
    ELSE ListenerManager_insert(lm, path, widget_path, listener)

\* ListenerManager::unregister
ListenerManager_unregister(lm, path, ty) ==
    IF ListenerKeys(lm.listeners, path, ty) = {}
    THEN lm
    ELSE The({ IF ty \notin DOMAIN lm.root_listeners
               THEN [lm1 EXCEPT !.err = "panic: unreachable"]
               ELSE IF lm.root_listeners[ty].count = 0
               THEN [lm1 EXCEPT !.err = "panic: attempt to subtract with overflow"]
               ELSE IF lm.root_listeners[ty].count - 1 = 0
               THEN [lm1 EXCEPT
                        !.root_listeners =
                            [t \in DOMAIN @ \ {ty} |-> @[t]],
                        !.attached =
                            [h \in DOMAIN @ \ {lm.root_listeners[ty].handle} |-> @[h]]]
               ELSE [lm1 EXCEPT !.root_listeners[ty].count = @ - 1]
               : lm1 \in {[lm EXCEPT !.listeners =
                               [k \in DOMAIN @ \ ListenerKeys(lm.listeners, path, ty)
                                   |-> @[k]]]} })

\* a Differ with an empty ListenerManager
InitListen ==
    /\ node = <<>>
    /\ dropped = <<>>
    /\ dom = ListenerManager_new.attached
    /\ inst = ListenerManager_new.listeners
    /\ nodes = ListenerManager_new.root_listeners
    /\ params = <<>>
    /\ ops = <<>> /\ cb = <<>> /\ ev = <<>>
    /\ last = [kind |-> "new", ok |-> TRUE, existed |-> FALSE, ty |-> "",
               roots_kept |-> TRUE, keys_kept |-> TRUE, listeners_kept |-> TRUE]

\* the manager as the variables hold it
Manager == [listeners |-> inst, root_listeners |-> nodes, attached |-> dom, err |-> OK]

\* what a call leaves: the manager, and in last whether the call found the
\* entry and which parts of the manager it left as they were
Listened(kind, path, ty, lm) ==
    /\ inst' = lm.listeners
    /\ nodes' = lm.root_listeners
    /\ dom' = lm.attached
    /\ last' = [kind |-> kind, ok |-> lm.err = OK,
                existed |-> ListenerKeys(inst, path, ty) # {}, ty |-> ty,
                roots_kept |-> lm.root_listeners = nodes /\ lm.attached = dom,
                keys_kept |-> DOMAIN lm.listeners = DOMAIN inst,
                listeners_kept |-> lm.listeners = inst]
    /\ UNCHANGED <<node, dropped, params, ops, cb, ev>>

\* ListenerManager::register(differ, path, widget_path, listener)
Register(path, widget_path, listener) ==
    /\ last.ok
    /\ \E lm \in {ListenerManager_register(Manager, path, widget_path, listener)} :
          Listened("register", path, listener.ty, lm)

\* ListenerManager::unregister(differ, path, type_id)
Unregister(path, ty) ==
    /\ last.ok
    /\ \E lm \in {ListenerManager_unregister(Manager, path, ty)} :
          Listened("unregister", path, ty, lm)

NextListen ==
    \/ \E path \in ListenPaths, widget_path \in WidgetPaths, listener \in Listeners :
          Register(path, widget_path, listener)
    \/ \E path \in ListenPaths, ty \in EventTypes : Unregister(path, ty)

SpecListen == InitListen /\ [][NextListen]_vars

\* a method of Differ was entered with the frame pf
Called(w, name, pf, index) ==
    [w EXCEPT !.cb = Append(@, [cb |-> name, path |-> to_path(pf), index |-> index])]

\* Differ::add_node
Differ_add_node(w, pf, index, h) ==
    IF Len(pf) > 1 /\ NodesGet(w.nodes, to_path(SubSeq(pf, 1, Len(pf) - 1))) = NoHandle
    THEN Fail(w, "Can't find parent")
    ELSE The({ IF NodesGet(w.nodes, to_path(pf)) # NoHandle
               THEN Fail([w1 EXCEPT !.nodes = NodesInsert(@, to_path(pf), h)],
                         "already inserted")
               ELSE [w1 EXCEPT !.nodes = NodesInsert(@, to_path(pf), h)]
               : w1 \in {InsertBefore(w,
                            IF Len(pf) = 1
                            THEN RootElem
                            ELSE NodesGet(w.nodes, to_path(SubSeq(pf, 1, Len(pf) - 1))),
                            h, index)} })

\* Differ::node_added
Differ_node_added(w, pf, index, ty) ==
    The({ Differ_add_node(r.w, pf, index, r.h)
          : r \in {CreateElement(Called(w, "node_added", pf, index), ty)} })

\* Differ::node_removed
Differ_node_removed(w, pf) ==
    IF NodesGet(w.nodes, to_path(pf)) = NoHandle
    THEN Fail(Called(w, "node_removed", pf, 0), "Can't find node")
    ELSE RemoveChild([Called(w, "node_removed", pf, 0) EXCEPT
                          !.nodes = NodesRemove(@, to_path(pf))],
                     NodesGet(w.nodes, to_path(pf)))

\* Differ::text_added
Differ_text_added(w, pf, index, text) ==
    The({ Differ_add_node(r.w, pf, index, r.h)
          : r \in {CreateTextNode(Called(w, "text_added", pf, index), text)} })

\* Differ::text_changed
Differ_text_changed(w, pf, text) ==
    IF NodesGet(w.nodes, to_path(pf)) = NoHandle
    THEN Fail(Called(w, "text_changed", pf, 0), "Can't find node")
    ELSE SetData(Called(w, "text_changed", pf, 0), NodesGet(w.nodes, to_path(pf)), text)

\* Differ::text_removed
Differ_text_removed(w, pf) == Differ_node_removed(Called(w, "text_removed", pf, 0), pf)

\* the value of `node.parent` in the script of node_reordered: a backing node
\* has the properties parentNode and parentElement and none named parent, so
\* the read gives undefined
NodeParentProperty(d, h) == NoHandle

\* Differ::node_reordered
Differ_node_reordered(w, pf, index) ==
    IF NodesGet(w.nodes, to_path(pf)) = NoHandle
    THEN Fail(Called(w, "node_reordered", pf, index), "Can't find node")
    ELSE IF NodeParentProperty(w.dom, NodesGet(w.nodes, to_path(pf))) = NoHandle
         THEN Fail(Called(w, "node_reordered", pf, index), "TypeError: parent is undefined")
         ELSE InsertBefore(Called(w, "node_reordered", pf, index),
                           NodeParentProperty(w.dom, NodesGet(w.nodes, to_path(pf))),
                           NodesGet(w.nodes, to_path(pf)), index)

\* the frame of the i-th child of a node at pf, as visit_children and
\* diff_nodes make it: add_key for a keyed child, add_index otherwise
ChildFrame(pf, entry, non_keyed_index) ==
    PathFrame_add(pf, IF Len(entry.key) = 1
                      THEN IdentKey(entry.key[1])
                      ELSE IdentIndex(non_keyed_index))

\* the result of diff: the world and the current child as the pass leaves it
KR(w, curr) == [w |-> w, curr |-> curr]

\* the observation that diff kept the last child l for the frame pf
Retain(w, pf, l) ==
    [w EXCEPT !.ev = Append(@, [ev |-> "retained", path |-> <<to_path(pf)>>, at |-> l.at])]

\* the observation that diff replaced the last child l by the current child c
\* at the frame pf: w0 is the world before, w1 after the removal, r the result
Replaced(w0, w1, r, pf, index, l, c) ==
    KR([r.w EXCEPT !.ev = Append(@, [ev |-> "replaced", path |-> to_path(pf),
                                     index |-> index, cb0 |-> Len(w0.cb),
                                     cbm |-> Len(w1.cb), cb1 |-> Len(r.w.cb),
                                     old |-> l, new |-> c, err |-> r.w.err])],
       r.curr)

(* widgets: WidgetData, WidgetHolder and the application's widget types *)

\* Child::Widget(WidgetData::<ty>::new(input), None)
ChildWidgetOf(ty, input) ==
    [kind |-> "Widget", ty |-> ty, input |-> <<input>>, output |-> <<>>]

\* Child::Widget(WidgetData::new(input), None) of the widget type W
ChildWidget(input) == ChildWidgetOf("W", input)

\* Widget::render of the application's widget W: a text that shows the
\* widget's state and its input
W_render(widget, input) == ChildText(ToStr(widget * (MaxInput + 1) + input))

\* Widget::render of the widget Outer: its output is directly the widget W
Outer_render(widget, input) == ChildWidget(input)

\* Widget::render of the widget Panel: an element that listens to input
\* events and holds the widget W and, after it, a button that listens to
\* clicks while the state is 0
Panel_render(widget, input) ==
    ChildNodeOn("div",
                <<ChildEntry(<<>>, ChildWidget(input)),
                  ChildEntry(<<>>, ChildNodeOn("button", <<>>,
                                               IF widget = 0 THEN {"click"} ELSE {}))>>,
                {"input"})

\* Widget::render, by widget type
Widget_render(ty, widget, input) ==
    CASE ty = "W" -> W_render(widget, input)
      [] ty = "Outer" -> Outer_render(widget, input)
      [] ty = "Panel" -> Panel_render(widget, input)

RECURSIVE Stamp(_, _)
\* the nodes a render built, marked with the path of the widget that
\* rendered them
Stamp(c, p) ==
    IF c.kind = "Node"
    THEN [c EXCEPT !.by = <<p>>,
                   !.children = [i \in 1..Len(c.children) |->
                                    [c.children[i] EXCEPT
                                        !.child = Stamp(c.children[i].child, p)]]]
    ELSE c

\* Widget::should_rerender, the default body
W_should_rerender(l, c, last_input, curr_input) == last_input # curr_input \/ l # c

\* WidgetHolder::should_rerender
WidgetHolder_should_rerender(h) ==
    IF ~h.is_dirty
    THEN FALSE
    ELSE IF Len(h.last_widget) = 1 /\ Len(h.last_input) = 1
         THEN W_should_rerender(h.last_widget[1], h.curr_widget,
                                h.last_input[1], h.curr_input)
         ELSE TRUE

\* WidgetHolder::render; rin notes the input the render was given
WidgetHolder_render(h) ==
    [h |-> [h EXCEPT !.is_dirty = FALSE, !.last_widget = <<h.curr_widget>>,
                     !.rin = <<h.curr_input>>],
     child |-> Widget_render(h.ty, h.curr_widget, h.curr_input)]

\* WidgetHolder::update_is_dirty, called by WidgetCallback::call after the
\* callback changed the widget: the holder is stale until its next render
update_is_dirty(h) == [h EXCEPT !.is_dirty = TRUE]

\* differ.widget_holders.entry(path): the holder stored for the path, if any
HolderAt(m, p) ==
    IF \E q \in DOMAIN m : PathEq(q, p)
    THEN <<m[CHOOSE q \in DOMAIN m : PathEq(q, p)]>>
    ELSE <<>>

\* the result of try_render: the world, Option<Child>, and the input left
\* in the WidgetData
TR(w, out, input) == [w |-> w, out |-> out, input |-> input]

\* the observation that the holder at p rendered
Rendering(w, p, r) ==
    [w EXCEPT !.holders = NodesInsert(@, p, r.h),
              !.ev = Append(@, [ev |-> "widget_render", path |-> <<p>>])]

\* WidgetData::<ty>::try_render
WidgetData_try_render(w, ty, input, p) ==
    IF Len(HolderAt(w.holders, p)) = 1
    THEN IF HolderAt(w.holders, p)[1].ty # ty
         THEN TR(Fail(w, "panic: WidgetHolder has wrong Widget type"), <<>>, input)
         ELSE The({ IF WidgetHolder_should_rerender(h)
                    THEN The({ TR(Rendering(w, p, r), <<Stamp(r.child, p)>>, <<>>)
                               : r \in {WidgetHolder_render(h)} })
                    ELSE TR([w EXCEPT !.holders = NodesInsert(@, p, h)], <<>>, <<>>)
                    : h \in {IF Len(input) = 1
                             THEN [HolderAt(w.holders, p)[1] EXCEPT
                                      !.last_input = <<HolderAt(w.holders, p)[1].curr_input>>,
                                      !.curr_input = input[1]]
                             ELSE HolderAt(w.holders, p)[1]} })
    ELSE IF Len(input) = 0
         THEN TR(Fail(w, "panic: unwrap on None input"), <<>>, input)
         ELSE The({ TR(Rendering(w, p, r), <<Stamp(r.child, p)>>, <<>>)
                    : r \in {WidgetHolder_render(
                                 [ty |-> ty, last_widget |-> <<>>, curr_widget |-> 0,
                                  last_input |-> <<>>, curr_input |-> input[1],
                                  is_dirty |-> FALSE, rin |-> <<>>])} })

\* WidgetData::remove
WidgetData_remove(w, p) ==
    IF Len(HolderAt(w.holders, p)) = 0
    THEN Fail(w, "panic: Widget is non-existent")
    ELSE [w EXCEPT !.holders = NodesRemove(@, p)]

(* listeners of a node *)

RECURSIVE register_all(_, _, _, _)
\* for listener in curr.event_listeners.values_mut(): register it for the
\* node's path with differ.curr_widget_path
register_all(w, pf, n, types) ==
    IF w.err # OK \/ types = {}
    THEN w
    ELSE The({ register_all(
                   IF Len(w.cwp) = 0
                   THEN Fail(w, "panic: unwrap on None")
                   ELSE [w EXCEPT !.lm = ListenerManager_register(
                                             @, to_path(pf), w.cwp[1],
                                             [ty |-> t, by |-> n.by])],
                   pf, n, types \ {t})
               : t \in {CHOOSE t \in types : TRUE} })

RECURSIVE unregister_all(_, _, _)
\* for type_id in the given event types: unregister it for the node's path
unregister_all(w, pf, types) ==
    IF w.err # OK \/ types = {}
    THEN w
    ELSE The({ unregister_all(
                   [w EXCEPT !.lm = ListenerManager_unregister(@, to_path(pf), t)],
                   pf, types \ {t})
               : t \in {CHOOSE t \in types : TRUE} })

\* fn diff_event_listeners
diff_event_listeners(w, pf, l, curr) ==
    unregister_all(register_all(w, pf, curr, curr.listeners), pf,
                   l.listeners \ curr.listeners)

RECURSIVE diff(_, _, _, _, _)
RECURSIVE visit_children_added(_, _, _, _, _)
RECURSIVE visit_children_removed(_, _, _, _, _)
RECURSIVE diff_nodes_loop(_, _, _, _, _, _, _)
RECURSIVE diff_nodes_rest(_, _, _, _, _, _)
RECURSIVE diff_nodes_remove_non_keyed(_, _, _, _, _)
RECURSIVE diff_nodes_remove_keyed(_, _, _, _, _)

\* visit_children with the closure of node_added: diff(pf, index, None, child)
visit_children_added(w, pf, children, i, non_keyed_index) ==
    IF w.err # OK \/ i > Len(children)
    THEN [w |-> w, children |-> children]
    ELSE The({ visit_children_added(r.w, pf, [children EXCEPT ![i].child = r.curr[1]], i + 1,
                   IF Len(children[i].key) = 1 THEN non_keyed_index ELSE non_keyed_index + 1)
               : r \in {diff(w, ChildFrame(pf, children[i], non_keyed_index), i - 1,
                             <<>>, <<children[i].child>>)} })

\* visit_children with the closure of node_removed: diff(pf, 0, child, None)
visit_children_removed(w, pf, children, i, non_keyed_index) ==
    IF w.err # OK \/ i > Len(children)
    THEN w
    ELSE visit_children_removed(
             diff(w, ChildFrame(pf, children[i], non_keyed_index), 0,
                  <<children[i].child>>, <<>>).w,
             pf, children, i + 1,
             IF Len(children[i].key) = 1 THEN non_keyed_index ELSE non_keyed_index + 1)

\* fn node_added
node_added(w, pf, index, c) ==
    IF w.err # OK
    THEN KR(w, <<c>>)
    ELSE The({ KR(r.w, <<[c EXCEPT !.children = r.children, !.at = <<to_path(pf)>>]>>)
               : r \in {visit_children_added(
                            register_all(Differ_node_added(w, pf, index, c.ty),
                                         pf, c, c.listeners),
                            pf, c.children, 1, 0)} })

\* fn node_removed
node_removed(w, pf, l) ==
    IF w.err # OK
    THEN w
    ELSE The({ IF w1.err # OK THEN w1 ELSE Differ_node_removed(w1, pf)
               : w1 \in {visit_children_removed(unregister_all(w, pf, l.listeners),
                                                pf, l.children, 1, 0)} })

\* the loop of diff_nodes over the current children from position i on
diff_nodes_loop(w, pf, l, kids, i, last_index, non_keyed_index) ==
    IF w.err # OK \/ i > Len(kids)
    THEN [w |-> w, children |-> kids, last_index |-> last_index,
          non_keyed_index |-> non_keyed_index]
    ELSE IF Len(kids[i].key) = 1
    THEN The({ diff_nodes_loop(
                   IF r.w.err # OK
                   THEN r.w
                   ELSE Differ_node_reordered(r.w, ChildFrame(pf, kids[i], 0), i - 1),
                   pf, l, [kids EXCEPT ![i].child = r.curr[1]], i + 1,
                   last_index, non_keyed_index)
               : r \in {diff(w, ChildFrame(pf, kids[i], 0), i - 1,
                             KeyedChild(l, kids[i].key[1]), <<kids[i].child>>)} })
    ELSE IF last_index >= Len(l.children)
    THEN diff_nodes_rest(w, pf, kids, i + 1, last_index, non_keyed_index)
    ELSE IF Len(l.children[last_index + 1].key) = 1
    THEN The({ diff_nodes_loop(r.w, pf, l, [kids EXCEPT ![i].child = r.curr[1]], i + 1,
                               last_index + 1, non_keyed_index + 1)
               : r \in {diff(w, ChildFrame(pf, kids[i], non_keyed_index), i - 1,
                             <<l.children[last_index + 1].child>>, <<kids[i].child>>)} })
    ELSE diff_nodes_loop(w, pf, l, kids, i + 1, last_index + 1, non_keyed_index)

\* the inner `for` of diff_nodes over what is left of the current children
\* once the last children are used up
diff_nodes_rest(w, pf, kids, i, last_index, non_keyed_index) ==
    IF w.err # OK \/ i > Len(kids)
    THEN [w |-> w, children |-> kids, last_index |-> last_index,
          non_keyed_index |-> non_keyed_index]
    ELSE IF Len(kids[i].key) = 1
    THEN diff_nodes_rest(w, pf, kids, i + 1, last_index, non_keyed_index)
    ELSE The({ diff_nodes_rest(r.w, pf, [kids EXCEPT ![i].child = r.curr[1]], i + 1,
                               last_index, non_keyed_index + 1)
               : r \in {diff(w, ChildFrame(pf, kids[i], non_keyed_index), 0,
                             <<>>, <<kids[i].child>>)} })

\* "remove non-keyed nodes": the non-keyed entries of last.children[last_index..]
diff_nodes_remove_non_keyed(w, pf, lkids, j, non_keyed_index) ==
    IF w.err # OK \/ j > Len(lkids)
    THEN w
    ELSE IF Len(lkids[j].key) = 1
    THEN diff_nodes_remove_non_keyed(w, pf, lkids, j + 1, non_keyed_index)
    ELSE diff_nodes_remove_non_keyed(
             diff(w, ChildFrame(pf, lkids[j], non_keyed_index), 0,
                  <<lkids[j].child>>, <<>>).w,
             pf, lkids, j + 1, non_keyed_index + 1)

\* "remove keyed nodes": the keyed last children whose key curr does not hold
diff_nodes_remove_keyed(w, pf, lkids, curr, j) ==
    IF w.err # OK \/ j > Len(lkids)
    THEN w
    ELSE IF Len(lkids[j].key) = 1 /\ KeyedChild(curr, lkids[j].key[1]) = <<>>
    THEN diff_nodes_remove_keyed(
             diff(w, ChildFrame(pf, lkids[j], 0), 0, <<lkids[j].child>>, <<>>).w,
             pf, lkids, curr, j + 1)
    ELSE diff_nodes_remove_keyed(w, pf, lkids, curr, j + 1)

\* fn diff_nodes
diff_nodes(w, pf, l, curr) ==
    The({ KR(diff_nodes_remove_keyed(
                 diff_nodes_remove_non_keyed(r.w, pf, l.children, r.last_index + 1,
                                             r.non_keyed_index),
                 pf, l.children, curr, 1),
             <<[curr EXCEPT !.children = r.children, !.at = l.at]>>)
          : r \in {diff_nodes_loop(diff_event_listeners(w, pf, l, curr),
                                   pf, l, curr.children, 1, 0, 0)} })

\* fn diff
diff(w, pf, index, l, curr) ==
    IF w.err # OK
    THEN KR(w, curr)
    ELSE CASE Len(l) = 1 /\ Len(curr) = 1 ->
                IF l[1].kind = "Node" /\ curr[1].kind = "Node"
                THEN IF l[1].ty # curr[1].ty
                     THEN The({ The({ Replaced(w, w1, r, pf, index, l[1], curr[1])
                                      : r \in {node_added(w1, pf, index, curr[1])} })
                                : w1 \in {node_removed(w, pf, l[1])} })
                     ELSE diff_nodes(Retain(w, pf, l[1]), pf, l[1], curr[1])
                ELSE IF l[1].kind = "Text" /\ curr[1].kind = "Text"
                THEN KR(IF l[1].text # curr[1].text
                        THEN Differ_text_changed(Retain(w, pf, l[1]), pf, curr[1].text)
                        ELSE Retain(w, pf, l[1]),
                        <<[curr[1] EXCEPT !.at = l[1].at]>>)
                ELSE IF l[1].kind = "Widget" /\ curr[1].kind = "Widget"
                THEN IF Len(l[1].output) = 0
                     THEN KR(Fail(w, "panic: assertion failed: last_output.is_some()"), curr)
                     ELSE IF Len(curr[1].output) = 1
                     THEN KR(Fail(w, "panic: assertion failed: curr_output.is_none()"), curr)
                     ELSE The({ IF t.w.err # OK
                                THEN KR(t.w, curr)
                                ELSE IF Len(t.out) = 1
                                THEN KR(diff(t.w, pf, index, l[1].output, t.out).w,
                                        <<[curr[1] EXCEPT !.input = t.input]>>)
                                ELSE KR(t.w, <<[curr[1] EXCEPT !.input = t.input,
                                                               !.output = l[1].output]>>)
                                : t \in {WidgetData_try_render(
                                             [w EXCEPT !.cwp = <<to_path(pf)>>],
                                             curr[1].ty, curr[1].input, to_path(pf))} })
                ELSE The({ The({ Replaced(w, r1.w, r, pf, index, l[1], curr[1])
                                 : r \in {diff(r1.w, pf, index, <<>>, curr)} })
                           : r1 \in {diff(w, pf, index, l, <<>>)} })
           [] Len(l) = 0 /\ Len(curr) = 1 ->
                IF curr[1].kind = "Node"
                THEN node_added(w, pf, index, curr[1])
                ELSE IF curr[1].kind = "Text"
                THEN KR(Differ_text_added(w, pf, index, curr[1].text),
                        <<[curr[1] EXCEPT !.at = <<to_path(pf)>>]>>)
                ELSE IF Len(curr[1].output) = 1
                THEN KR(Fail(w, "panic: assertion failed: output.is_none()"), curr)
                ELSE The({ IF t.w.err # OK
                           THEN KR(t.w, curr)
                           ELSE IF Len(t.out) = 0
                           THEN KR(Fail(t.w, "panic: unwrap on None"), curr)
                           ELSE The({ KR(r.w, <<[curr[1] EXCEPT !.input = t.input,
                                                                !.output = r.curr]>>)
                                      : r \in {diff(t.w, pf, index, <<>>, t.out)} })
                           : t \in {WidgetData_try_render(
                                        [w EXCEPT !.cwp = <<to_path(pf)>>],
                                        curr[1].ty, curr[1].input, to_path(pf))} })
           [] Len(l) = 1 /\ Len(curr) = 0 ->
                IF l[1].kind = "Node"
                THEN KR(node_removed(w, pf, l[1]), <<>>)
                ELSE IF l[1].kind = "Text"
                THEN KR(Differ_text_removed(w, pf), <<>>)
                ELSE IF Len(l[1].output) = 0
                THEN KR(Fail(w, "panic: unwrap on None"), curr)
                ELSE The({ KR(IF r.w.err # OK THEN r.w
                              ELSE WidgetData_remove(r.w, to_path(pf)),
                              <<>>)
                           : r \in {diff([w EXCEPT !.cwp = <<to_path(pf)>>],
                                         pf, index, l[1].output, <<>>)} })
           [] OTHER -> KR(w, curr)

\* the children the application puts in a list: texts and empty elements
KChildren == {ChildText("1"), ChildText("2"), ChildNode("li", <<>>)}

\* list entries: non-keyed (add_child) or keyed (add_keyed_child)
KEntries ==
    {ChildEntry(k, c) : k \in {<<>>, <<KeyStr("a")>>, <<KeyStr("b")>>}, c \in KChildren}

\* no two keyed children of one parent have equal keys
UniqueKeys(l) ==
    \A i, j \in 1..Len(l) :
        (i < j /\ Len(l[i].key) = 1 /\ Len(l[j].key) = 1) => ~KeyEq(l[i].key[1], l[j].key[1])

\* the trees the application renders: one list element with up to MaxKids children
KRoots ==
    {ChildNode(ty, l) : ty \in {"ul", "ol"},
                        l \in {l \in UNION {[1..n -> KEntries] : n \in 0..MaxKids} :
                                  UniqueKeys(l)}}

\* the world a pass of the keyed engine runs in
KWorld(d, m) ==
    [dom |-> d, nodes |-> m, holders |-> << >>, cwp |-> <<>>,
     lm |-> ListenerManager_new, ops |-> <<>>, cb |-> <<>>, ev |-> <<>>, err |-> OK,
     fuel |-> NoFault]

\* Context::new(root)
InitKeyed ==
    /\ node = <<>>
    /\ dropped = <<>>
    /\ dom = EmptyDoc
    /\ inst = << >>
    /\ nodes = << >>
    /\ params = <<>>
    /\ ops = <<>> /\ cb = <<>> /\ ev = <<>>
    /\ last = [kind |-> "new", ok |-> TRUE, err |-> OK, starts |-> 0]

\* Context::start(curr) and the animation frame that runs the scheduled
\* closure: take differ.last, diff it against curr, store curr.  A panic or a
\* script error leaves the frame with differ.last taken and the RefCell still
\* borrowed, so no later pass runs.
Start(curr) ==
    /\ last.ok /\ last.starts < MaxStarts
    /\ \E r \in {diff(KWorld(dom, nodes), PathFrame_new, 0, node, <<curr>>)} :
          /\ node' = IF r.w.err = OK THEN r.curr ELSE <<>>
          /\ dropped' = node
          /\ dom' = [h \in Closure(r.w.dom, {RootElem} \cup {r.w.nodes[q] : q \in DOMAIN r.w.nodes})
                        |-> r.w.dom[h]]
          /\ inst' = inst
          /\ nodes' = r.w.nodes
          /\ params' = <<curr>>
          /\ ops' = r.w.ops
          /\ cb' = r.w.cb
          /\ ev' = r.w.ev
          /\ last' = [kind |-> "start", ok |-> r.w.err = OK, err |-> r.w.err,
                      starts |-> last.starts + 1]

NextKeyed == \E curr \in KRoots : Start(curr)

SpecKeyed == InitKeyed /\ [][NextKeyed]_vars

(* ---------------------------------------------------------------------- *)
(* Widgets mounted in the keyed engine's tree                              *)
(* ---------------------------------------------------------------------- *)

\* the identifiers of a path, from the root down
RECURSIVE PathIdents(_)
PathIdents(p) ==
    IF Len(p.parent) = 0 THEN <<p.ident>> ELSE Append(PathIdents(p.parent[1]), p.ident)

\* path.len(): the depth of a path, the number of its identifiers
Path_len(p) == Len(PathIdents(p))

\* the position in node.children of the child an identifier names, 0 when
\* the node has none: keyed_children.get(key), or the non-keyed child with
\* the given non-keyed index
ChildPos(n, ident) ==
    IF ident.id = "Key"
    THEN IF \E i \in 1..Len(n.children) :
               Len(n.children[i].key) = 1 /\ KeyEq(n.children[i].key[1], ident.key)
         THEN CHOOSE i \in 1..Len(n.children) :
                  Len(n.children[i].key) = 1 /\ KeyEq(n.children[i].key[1], ident.key)
         ELSE 0
    ELSE IF \E i \in 1..Len(n.children) :
               /\ Len(n.children[i].key) = 0
               /\ Cardinality({j \in 1..(i - 1) : Len(n.children[j].key) = 0}) = ident.index
         THEN CHOOSE i \in 1..Len(n.children) :
                  /\ Len(n.children[i].key) = 0
                  /\ Cardinality({j \in 1..(i - 1) : Len(n.children[j].key) = 0}) = ident.index
         ELSE 0

\* the result of a traversal: the world and the child as the closure left it
TP(w, child) == [w |-> w, child |-> child]

RECURSIVE traverse_path_(_, _, _, _, _, _)
\* fn traverse_path_ with the closure of the frame callback:
\* |index, pf, child| { diff(differ, pf, index, Some(child), Some(&mut rendered));
\*                      *child = rendered; }
traverse_path_(w, c, index, pf, path, rendered) ==
    IF c.kind = "Widget"
    THEN IF Len(c.output) = 0
         THEN TP(Fail(w, "panic: child not rendered"), c)
         ELSE The({ TP(r.w, [c EXCEPT !.output = <<r.child>>])
                    : r \in {traverse_path_(w, c.output[1], index, pf, path, rendered)} })
    ELSE IF Len(path) > 0
    THEN IF c.kind # "Node"
         THEN TP(Fail(w, "panic: unreachable"), c)
         ELSE IF ChildPos(c, path[1]) = 0
         THEN TP(Fail(w, "panic: node not found"), c)
         ELSE The({ The({ TP(r.w, [c EXCEPT !.children[i].child = r.child])
                          : r \in {traverse_path_(w, c.children[i].child, i - 1,
                                                  PathFrame_add(pf, path[1]),
                                                  SubSeq(path, 2, Len(path)), rendered)} })
                    : i \in {ChildPos(c, path[1])} })
    ELSE The({ TP(r.w, IF r.w.err = OK THEN r.curr[1] ELSE c)
               : r \in {diff(w, pf, index, <<c>>, <<rendered>>)} })

\* fn traverse_path: from the root frame along path[1..]
traverse_path(w, c, path, rendered) ==
    traverse_path_(w, c, 0, PathFrame_new, SubSeq(PathIdents(path), 2, Path_len(path)),
                   rendered)

\* the paths of the holders that report should_rerender
Stale(holders) == {q \in DOMAIN holders : WidgetHolder_should_rerender(holders[q])}

\* the observation that the loop picked the holder at p
Picked(w, p) ==
    [w EXCEPT !.ev = Append(@, [ev |-> "picked", path |-> <<p>>, depth |-> Path_len(p),
                                stale |-> Stale(w.holders)])]

RECURSIVE RerenderLoop(_, _, _)
\* the `while let` of the frame callback: render the holder of least depth
\* among those that report should_rerender and diff its output in place; the
\* model gives up after MaxLoop rounds
RerenderLoop(w, tree, n) ==
    IF w.err # OK \/ Stale(w.holders) = {}
    THEN TP(w, tree)
    ELSE IF n = 0
    THEN TP(Fail(w, "the loop goes on"), tree)
    ELSE The({ The({ The({ RerenderLoop(t.w, t.child, n - 1)
                           : t \in {traverse_path(Rendering(Picked(w, p), p, r), tree, p,
                                                  Stamp(r.child, p))} })
                     : r \in {WidgetHolder_render(w.holders[p])} })
               : p \in {CHOOSE p \in Stale(w.holders) :
                            \A q \in Stale(w.holders) : Path_len(p) <= Path_len(q)} })

\* the world a pass over the widget tree runs in; x holds the listener
\* manager and curr_widget_path
WWorld(d, m, h, x) ==
    [dom |-> d, nodes |-> m, holders |-> h, cwp |-> x.cwp, lm |-> x.lm,
     ops |-> <<>>, cb |-> <<>>, ev |-> <<>>, err |-> OK, fuel |-> NoFault]

\* Context::new(root); params holds the Differ's listener_manager and
\* curr_widget_path, dropped the tree the last frame began with
InitWidget ==
    /\ node = <<>>
    /\ dropped = <<>>
    /\ dom = EmptyDoc
    /\ inst = << >>
    /\ nodes = << >>
    /\ params = [lm |-> ListenerManager_new, cwp |-> <<>>]
    /\ ops = <<>> /\ cb = <<>> /\ ev = <<>>
    /\ last = [kind |-> "new", ok |-> TRUE, err |-> OK, mounted |-> FALSE,
               input |-> 0, state |-> 0, rin |-> <<>>, rst |-> <<>>, loop |-> <<>>,
               asked |-> <<>>]

\* an element with the widget W as its first child and, in a second child
\* element, the widget W again
TwoWidgets ==
    ChildNode("main",
              <<ChildEntry(<<>>, ChildWidget(0)),
                ChildEntry(<<>>, ChildNode("p", <<ChildEntry(<<>>, ChildWidget(0))>>))>>)

\* the trees the application renders: one of its widgets, a text, or the
\* element with two widgets
WRoots ==
    {ChildWidget(i) : i \in 0..MaxInput}
        \cup {ChildWidgetOf("Outer", 0), ChildWidgetOf("Panel", 0), ChildText("1"),
              TwoWidgets}

\* the paths a holder of the application's widgets can be stored under
HolderPaths ==
    {to_path(PathFrame_new),
     to_path(PathFrame_add(PathFrame_new, IdentIndex(0))),
     to_path(PathFrame_add(PathFrame_add(PathFrame_new, IdentIndex(1)), IdentIndex(0)))}

\* what a frame leaves behind: f is the result of the loop, curr the tree the
\* application passed, if any; last notes the root holder as the frame found
\* it and, when the frame came to its loop, where in the log the loop began
Framed(kind, f, curr, loop) ==
    /\ node' = IF f.w.err = OK THEN <<f.child>> ELSE <<>>
    /\ dropped' = node
    /\ dom' = [h \in Closure(f.w.dom, {RootElem} \cup {f.w.nodes[q] : q \in DOMAIN f.w.nodes})
                  |-> f.w.dom[h]]
    /\ inst' = f.w.holders
    /\ nodes' = f.w.nodes
    /\ params' = [lm |-> f.w.lm, cwp |-> f.w.cwp]
    /\ ops' = f.w.ops
    /\ cb' = f.w.cb
    /\ ev' = f.w.ev
    /\ last' = The({ [kind |-> kind, ok |-> f.w.err = OK, err |-> f.w.err,
                      mounted |-> /\ Len(h) = 1 /\ Len(curr) = 1
                                  /\ curr[1].kind = "Widget" /\ curr[1].ty = "W"
                                  /\ h[1].ty = "W",
                      input |-> IF Len(curr) = 1 /\ curr[1].kind = "Widget"
                                THEN curr[1].input[1] ELSE 0,
                      state |-> IF Len(h) = 1 THEN h[1].curr_widget ELSE 0,
                      rin |-> IF Len(h) = 1 THEN h[1].rin ELSE <<>>,
                      rst |-> IF Len(h) = 1 THEN h[1].last_widget ELSE <<>>,
                      loop |-> loop, asked |-> curr]
                    : h \in {HolderAt(inst, to_path(PathFrame_new))} })

\* Context::start(curr) and the animation frame that runs the scheduled
\* closure and then the loop over the holders
StartWidget(curr) ==
    /\ last.ok
    /\ \E r \in {diff(WWorld(dom, nodes, inst, params), PathFrame_new, 0, node, <<curr>>)} :
          \E f \in {IF r.w.err = OK
                    THEN RerenderLoop(r.w, r.curr[1], MaxLoop)
                    ELSE TP(r.w, curr)} :
             Framed("start", f, <<curr>>, IF r.w.err = OK THEN <<Len(r.w.ev)>> ELSE <<>>)

\* an animation frame whose closures leave the tree alone (the application
\* called differ.schedule(|_| {})): the loop over the holders
Frame ==
    /\ last.ok
    /\ Len(node) = 1
    /\ \E f \in {RerenderLoop(WWorld(dom, nodes, inst, params), node[1], MaxLoop)} :
          Framed("frame", f, <<>>, <<0>>)

\* WidgetCallback::call for the widget at path p: the callback sets the
\* widget's state to s, then update_is_dirty
WidgetCall(p, s) ==
    /\ last.ok
    /\ p \in DOMAIN inst
    /\ inst' = NodesInsert(inst, p, update_is_dirty([inst[p] EXCEPT !.curr_widget = s]))
    /\ last' = [last EXCEPT !.kind = "call"]
    /\ UNCHANGED <<node, dropped, dom, nodes, params, ops, cb, ev>>

NextWidget ==
    \/ \E curr \in WRoots : StartWidget(curr)
    \/ Frame
    \/ \E p \in HolderPaths : \E s \in 0..MaxState : WidgetCall(p, s)

SpecWidget == InitWidget /\ [][NextWidget]_vars

(* ---------------------------------------------------------------------- *)
(* Failing passes                                                          *)
(* ---------------------------------------------------------------------- *)

\* the last pass was an App::set that returned Err
FailedSet == last.kind = "set" /\ ~last.ok

\* C11: when a callback fails during a traversal, no further callback is
\* invoked in that traversal and the traversal returns that same error: the
\* pass raised one failure, after its last callback, and it is the error
\* App::set returned.
C11_FirstErrorEndsTraversal ==
    /\ last.ok => Events("fail") = {}
    /\ FailedSet => /\ Events("fail") = {Len(ev)}
                    /\ ev[Len(ev)].cbs = Len(cb)
                    /\ ev[Len(ev)].e = last.err

\* a pass that failed in the on_attr callback of the first of two attributes
C11_Witness ==
    /\ FailedSet
    /\ last.err = "js"
    /\ Len(cb) > 2
    /\ cb[Len(cb)].cb = "on_attr"
    /\ cb[Len(cb)].s = "lang"

\* C12: after App::set returned Err the App retains the previous tree, not
\* the new one, and nothing done before the failure is undone: attribute
\* calls made stay visible in the document and handles taken out of the
\* previous tree's slots stay taken.
C12_FailedSetKeepsOldTree ==
    FailedSet =>
        /\ Bare(node) = Bare(RootRender(params))
        /\ \A i \in DOMAIN ops :
              (/\ ops[i].op = "set_attribute"
               /\ ops[i].h \in DOMAIN dom
               /\ \A j \in (i + 1)..Len(ops) :
                     ~(ops[j].h = ops[i].h /\ ops[j].s = ops[i].s))
                  => <<ops[i].s, ops[i].t>> \in dom[ops[i].h].attrs
        /\ \A i \in Events("slot_moved") :
              /\ ev[i].left = NoHandle
              /\ ev[i].before \notin Range(Held(node))

\* a failed pass that had set an attribute and moved handles before failing
C12_Witness ==
    /\ FailedSet
    /\ \E i \in DOMAIN ops : ops[i].op = "set_attribute" /\ ops[i].h \in DOMAIN dom
    /\ Events("slot_moved") # {}
    /\ Bare(dropped) # Bare(node)

(* ---------------------------------------------------------------------- *)
(* Option nodes                                                            *)
(* ---------------------------------------------------------------------- *)

\* the positions of the callbacks named name among the callbacks a..b of the pass
CallsIn(name, a, b) == {k \in a..b : cb[k].cb = name}

\* C13: the diff of an Option node does one of four things by presence of
\* (current, ancestor): (Some, Some) is the inner diff and nothing else;
\* (Some, None) calls on_node_added once, with the current node and index;
\* (None, Some) calls on_node_removed once, with the ancestor node and
\* index; (None, None) makes no callback and moves neither index.
C13_OptionDiffFourWays ==
    \A i \in Events("diff") :
        LET e == ev[i]
            added == CallsIn("on_node_added", e.cb0 + 1, e.cb1)
            removed == CallsIn("on_node_removed", e.cb0 + 1, e.cb1)
        IN e.kind = "opt" =>
            CASE e.csome /\ e.asome ->
                    /\ i > 1 /\ ev[i - 1].ev = "diff"
                    /\ ev[i - 1].cb0 = e.cb0 /\ ev[i - 1].cb1 = e.cb1
                    /\ ev[i - 1].ci0 = e.ci0 /\ ev[i - 1].ci1 = e.ci1
                    /\ ev[i - 1].ai0 = e.ai0 /\ ev[i - 1].ai1 = e.ai1
                    /\ added = {} /\ removed = {}
              [] e.csome /\ ~e.asome ->
                    /\ added = {e.cb0 + 1} /\ removed = {}
                    /\ cb[e.cb0 + 1].i = e.ci0
                    /\ e.ai1 = e.ai0
              [] ~e.csome /\ e.asome ->
                    /\ removed = {e.cb0 + 1} /\ added = {}
                    /\ cb[e.cb0 + 1].i = e.ai0
                    /\ e.ci1 = e.ci0
              [] ~e.csome /\ ~e.asome ->
                    e.cb1 = e.cb0 /\ e.ci1 = e.ci0 /\ e.ai1 = e.ai0

\* a pass that diffed Option nodes with presence (cs, as)
OptionDiffed(cs, as) ==
    /\ last.kind = "set" /\ last.ok
    /\ \E i \in Events("diff") :
          ev[i].kind = "opt" /\ ev[i].csome = cs /\ ev[i].asome = as

\* one pass in which one Option node appeared and another one went away
C13_Witness == OptionDiffed(TRUE, FALSE) /\ OptionDiffed(FALSE, TRUE)

(* ---------------------------------------------------------------------- *)
(* Attribute lists                                                         *)
(* ---------------------------------------------------------------------- *)

\* the attribute callbacks of the pass, in call order
AttrCalls == SelectSeq(cb, LAMBDA c : c.cb \in {"on_attr", "on_diff"})

\* C14: traversing an attribute list invokes the callback once per entry, in
\* list order: a visit calls on_attr for each entry, a diff calls on_diff for
\* each entry pair, static entries included.
C14_OneCallbackPerEntry ==
    /\ Len(AttrCalls) = Len(node.attrs)
    /\ \A k \in DOMAIN node.attrs :
          /\ AttrCalls[k].s = node.attrs[k].key
          /\ AttrCalls[k].cb = IF last.kind = "new" THEN "on_attr" ELSE "on_diff"

\* a diff of a list with static entries in which no value changed
C14_Witness ==
    /\ last.kind = "set" /\ last.ok
    /\ node.attrs = dropped.attrs
    /\ \E k \in DOMAIN node.attrs : IsValueStatic(node.attrs[k])
    /\ Len(AttrCalls) = 4

\* the attribute calls the pass made for the attribute key, in call order
AttrOps(key) ==
    SelectSeq(ops, LAMBDA o : o.op \in {"set_attribute", "remove_attribute"} /\ o.s = key)

\* a value built from true or from a string, not from false or None
Present(val) == val.v # "Null"

\* two values denote the same thing: both true, or strings of equal content
SameValue(x, y) == (x.v = "True") = (y.v = "True") /\ (x.v = "Null") = (y.v = "Null") /\ x.s = y.s

\* the string a present value stands for in the document: true stands for
\* the attribute's own name
Written(key, val) == IF val.v = "True" THEN key ELSE val.s

\* the calls the stock differ makes for one entry, given whether its two
\* present values count as changed
EntryCalls(key, c, a, changed) ==
    CASE Present(a) /\ ~Present(c) ->
            /\ Len(AttrOps(key)) = 1
            /\ AttrOps(key)[1].op = "remove_attribute"
      [] (~Present(a) /\ Present(c)) \/ (Present(a) /\ Present(c) /\ changed) ->
            /\ Len(AttrOps(key)) = 1
            /\ AttrOps(key)[1].op = "set_attribute"
            /\ AttrOps(key)[1].t = Written(key, c)
      [] OTHER -> AttrOps(key) = <<>>

\* C15 as stated: present ancestor and absent current value: one
\* remove-attribute call; absent ancestor and present current value: one
\* set-attribute call with the current value; two present different values:
\* one set-attribute call; equal values or two absent values: no call.
C15_DifferentValuesSet ==
    last.kind = "set" =>
        \A k \in DOMAIN node.attrs :
            EntryCalls(node.attrs[k].key, node.attrs[k].value, dropped.attrs[k].value,
                       ~SameValue(node.attrs[k].value, dropped.attrs[k].value))

\* C15, amended: as stated, except that two present values count as
\* different when the strings they stand for in the document differ: the
\* value true and a string equal to the attribute's name issue no call.
C15_DifferentStringsSet ==
    last.kind = "set" =>
        \A k \in DOMAIN node.attrs :
            EntryCalls(node.attrs[k].key, node.attrs[k].value, dropped.attrs[k].value,
                       Written(node.attrs[k].key, node.attrs[k].value)
                           # Written(node.attrs[k].key, dropped.attrs[k].value))

\* one diff that removed one attribute and set the other to a new string
C15_Witness ==
    /\ last.kind = "set" /\ last.ok
    /\ Present(dropped.attrs[1].value) /\ ~Present(node.attrs[1].value)
    /\ Present(dropped.attrs[4].value) /\ Present(node.attrs[4].value)
    /\ ~SameValue(node.attrs[4].value, dropped.attrs[4].value)
    /\ Len(ops) = 2

(* ---------------------------------------------------------------------- *)
(* Keys and paths                                                          *)
(* ---------------------------------------------------------------------- *)

\* the key comparison ran
KeysCompared == params.kind = "keys" /\ last.done

\* both keys are strings, borrowed or owned
BothStrings(x, y) == {x.kind, y.kind} \subseteq {"Str", "String"}

\* C19: key equality is an equivalence relation; a borrowed and an owned
\* string key of the same content are equal; keys of different kinds are
\* never equal; equal keys hash the same.
C19_KeyEqualityAndHash ==
    KeysCompared =>
        /\ \A x \in {"a", "b", "c"} : last.eq[x][x]
        /\ \A x, y \in {"a", "b", "c"} : last.eq[x][y] = last.eq[y][x]
        /\ (last.eq["a"]["b"] /\ last.eq["b"]["c"]) => last.eq["a"]["c"]
        /\ \A x, y \in {"a", "b", "c"} :
              /\ (BothStrings(params[x], params[y]) /\ params[x].s = params[y].s)
                    => last.eq[x][y]
              /\ (params[x].kind # params[y].kind /\ ~BothStrings(params[x], params[y]))
                    => ~last.eq[x][y]
              /\ last.eq[x][y] => last.hash[x] = last.hash[y]

\* a borrowed and an owned key of one content compared equal and hashed the
\* same, and a byte blob of the same bytes compared unequal to both
C19_Witness ==
    /\ KeysCompared
    /\ params.a = KeyStr("a") /\ params.b = KeyString("a") /\ params.c = KeyBytes(<<97>>)
    /\ last.eq["a"]["b"] /\ last.hash["a"] = last.hash["b"]
    /\ ~last.eq["b"]["c"]

\* the path construction ran
PathsBuilt == params.kind = "paths" /\ last.done

\* two identifier sequences of one length whose identifiers are pairwise equal
SameIdents(s, t) == Len(s) = Len(t) /\ \A i \in 1..Len(s) : IdentEq(s[i], t[i])

RECURSIVE Plain(_)
\* a child as the application described it: kind, type, text and children,
\* without keys and without the model's bookkeeping
Plain(c) ==
    [kind |-> c.kind, ty |-> c.ty, text |-> c.text,
     children |-> [i \in 1..Len(c.children) |-> Plain(c.children[i].child)]]

\* the last pass diffed the tree a against the tree c
Diffed(a, c) == last.kind = "start" /\ dropped = <<a>> /\ params = <<c>>

\* the children of c are the children of a in some order: all keyed, the same
\* keys, and under each key the same content
PurePermutation(a, c) ==
    /\ a.kind = "Node" /\ c.kind = "Node" /\ a.ty = c.ty
    /\ Len(a.children) = Len(c.children)
    /\ \A i \in 1..Len(c.children) :
          /\ Len(c.children[i].key) = 1
          /\ \E j \in 1..Len(a.children) :
                /\ Len(a.children[j].key) = 1
                /\ KeyEq(a.children[j].key[1], c.children[i].key[1])
                /\ Plain(a.children[j].child) = Plain(c.children[i].child)

RECURSIVE Shape(_, _)
\* the tree the backing node h stands for: kind, type, text and children
Shape(d, h) ==
    [kind |-> IF d[h].kind = "elem" THEN "Node" ELSE "Text",
     ty |-> IF d[h].kind = "elem" THEN d[h].name ELSE "",
     text |-> d[h].data,
     children |-> [i \in 1..Len(d[h].children) |-> Shape(d, d[h].children[i])]]

\* the last pass ran diff_nodes on the root: a retained element of one type
DiffedNodes ==
    /\ Len(dropped) = 1 /\ Len(params) = 1 /\ Diffed(dropped[1], params[1])
    /\ dropped[1].kind = "Node" /\ params[1].kind = "Node"
    /\ dropped[1].ty = params[1].ty

\* C17: after diff_nodes on two child lists with unique keys per parent, the
\* backing children of the parent are exactly the current children, in the
\* current children's order.
C17_BackingChildrenAreCurrent ==
    DiffedNodes =>
        /\ Len(dom[RootElem].children) = 1
        /\ Shape(dom, dom[RootElem].children[1]) = Plain(params[1])

\* the frames under which the last pass addressed children it retained, each
\* with the path the child had been added under
RetainedChildren == {ev[k] : k \in {k \in 1..Len(ev) : ev[k].ev = "retained"}}

\* C18: the path under which a pass addresses a retained node (the frame
\* diff hands to every Differ method for it) equals the path the node was
\* added under, so looking the node up by path finds what was stored for it.
C18_RetainedAddressedWhereAdded ==
    \A e \in RetainedChildren :
        /\ Len(e.at) = 1
        /\ PathEq(e.path[1], e.at[1])
        /\ PathHash(e.path[1]) = PathHash(e.at[1])

\* the component diffs of the last pass
CompDiffs == {ev[k] : k \in {k \in 1..Len(ev) : ev[k].ev = "comp_diff"}}

\* C27: a component that stays mounted across diffs keeps a single instance:
\* the current CompNode leaves the diff holding the very context its ancestor
\* held, that context's instance was built before the pass (Comp::new ran when
\* the node was first visited, not in the diff), and the first callback of the
\* diff at that position is the differ's on_comp, not the add visitor's.
C27_MountedComponentKeepsInstance ==
    \A e \in CompDiffs :
        /\ e.curr.comp_ctx = e.anc.comp_ctx
        /\ e.id = e.anc.comp_ctx
        /\ e.r0 >= 1
        /\ cb[e.cb0].cb = "diff.on_comp"
        /\ last.ok => e.id \in DOMAIN inst

\* a second set re-rendered a component on the instance built by App::new
C27_Witness ==
    /\ last.kind = "set" /\ last.ok
    /\ \E e \in CompDiffs : e.r1 > e.r0 /\ e.curr.comp_ctx = e.anc.comp_ctx
                              /\ e.id \in DOMAIN inst

\* the failures a tree left half-diffed produces: a store or a snapshot that
\* an earlier pass took and never put back
StructuralErrors ==
    {"element is None", "text is None",
     "panic: ancestor.comp_rendered is NotRendered",
     "panic: self.comp_rendered is not Rendered",
     "panic: self.comp_rendered is Taken",
     "panic: comp_rendered is Taken"}

\* C28: after App::set has returned an error, the next App::set (any tree the
\* application renders, all of one shape) does not end in "element is None",
\* "text is None" or a panic on a NotRendered or Taken component snapshot.
C28_SetAfterFailedSet ==
    [][(FailedSet /\ last'.kind = "set") => last'.err \notin StructuralErrors]_vars

\* the non-keyed entries of a node's children, in order
NonKeyed(n) == SelectSeq(n.children, LAMBDA e : Len(e.key) = 0)

\* C29: in diff_nodes the i-th non-keyed current child is diffed against the
\* i-th non-keyed last child (one of the same kind is retained and keeps the
\* path it was added under), non-keyed last children beyond the current ones
\* are removed, and every current child is processed exactly once: after the
\* pass each one is either retained or added.
C29_NonKeyedByPosition ==
    (DiffedNodes /\ last.ok) =>
        /\ \A i \in 1..Len(node[1].children) : Len(node[1].children[i].child.at) = 1
        /\ \A i \in 1..Len(NonKeyed(node[1])) :
              (/\ i <= Len(NonKeyed(dropped[1]))
               /\ NonKeyed(node[1])[i].child.kind = NonKeyed(dropped[1])[i].child.kind
               /\ NonKeyed(node[1])[i].child.ty = NonKeyed(dropped[1])[i].child.ty)
                  => NonKeyed(node[1])[i].child.at = NonKeyed(dropped[1])[i].child.at
        /\ \A i \in (Len(NonKeyed(node[1])) + 1)..Len(NonKeyed(dropped[1])) :
              NodesGet(nodes, NonKeyed(dropped[1])[i].child.at[1]) = NoHandle

RECURSIVE Mounted(_, _)
\* the number of tag and text nodes in the children kids from position i on
\* and below them
Mounted(kids, i) ==
    IF i > Len(kids)
    THEN 0
    ELSE 1 + Mounted(kids[i].child.children, 1) + Mounted(kids, i + 1)

\* C25: over render passes on trees with unique keys per parent the node map
\* has one entry per mounted tag or text node: add_node never finds its path
\* present, node_removed and text_changed never find theirs missing, and
\* after a pass the map has as many entries as the mounted tree has nodes.
C25_OneEntryPerMountedNode ==
    /\ last.err \notin {"already inserted", "Can't find node", "Can't find parent"}
    /\ (last.kind = "start" /\ last.ok /\ Len(node) = 1)
          => Cardinality(DOMAIN nodes) = 1 + Mounted(node[1].children, 1)

\* the diffs of the last pass that met a last and a current child of
\* different kinds or different element types
Replacements == {ev[k] : k \in {k \in 1..Len(ev) : ev[k].ev = "replaced"}}

\* C24: when the last and the current child at one position differ in kind or
\* in element type, diff first removes the whole old subtree (one removal per
\* node of it, the subtree's root last, under the path the old child was
\* added under) and only then adds the whole new subtree, its root first at
\* the same path and index; no other Differ method is called across the
\* mismatch.
C24_MismatchRemovesThenAdds ==
    \A e \in Replacements :
        /\ e.err = OK
        /\ Len(e.old.at) = 1 /\ PathEq(e.old.at[1], e.path)
        /\ \A k \in (e.cb0 + 1)..e.cbm : cb[k].cb \in {"node_removed", "text_removed"}
        /\ Cardinality({k \in (e.cb0 + 1)..e.cbm : cb[k].cb = "node_removed"})
              = 1 + Mounted(e.old.children, 1)
        /\ PathEq(cb[e.cbm].path, e.path)
        /\ \A k \in (e.cbm + 1)..e.cb1 : cb[k].cb \in {"node_added", "text_added"}
        /\ e.cb1 - e.cbm = 1 + Mounted(e.new.children, 1)
        /\ PathEq(cb[e.cbm + 1].path, e.path)
        /\ cb[e.cbm + 1].index = e.index

\* the last step was App::set on the one-element tree
TagDiffed == last.kind = "set" /\ "prev" \in DOMAIN last

\* the names of the callbacks of the last pass
CallNames == {cb[k].cb : k \in 1..Len(cb)}

\* C26: in a build with debug assertions, diffing two statically-named tags
\* with different names, two static texts with different content, two
\* attribute entries with different names or a static-valued attribute with
\* different values panics on the assertion before the differ's callback for
\* that node or entry is invoked; a dynamically-named tag and a dynamic text
\* that differ are handed to the differ.
C26_StaticMismatchAsserts ==
    TagDiffed =>
        /\ (params.tstatic /\ params.tag # last.prev.tag)
              => (last.err = "panic: assertion failed (tag)" /\ cb = <<>>)
        /\ (~params.tstatic /\ params.tag # last.prev.tag)
              => (Len(cb) >= 1 /\ cb[1].cb = "diff.on_tag")
        /\ ((params.tstatic => params.tag = last.prev.tag) /\ params.key # last.prev.key)
              => (last.err = "panic: assertion failed (attr name)"
                  /\ CallNames = {"diff.on_tag"})
        /\ (/\ params.tstatic => params.tag = last.prev.tag
            /\ params.key = last.prev.key
            /\ params.astatic /\ params.val # last.prev.val)
              => (last.err = "panic: assertion failed (static attr value)"
                  /\ CallNames = {"diff.on_tag"})
        /\ (/\ params.tstatic => params.tag = last.prev.tag
            /\ params.key = last.prev.key
            /\ params.astatic => params.val = last.prev.val)
              => /\ (params.xstatic /\ params.text # last.prev.text)
                       => (last.err = "panic: assertion failed (text)"
                           /\ "diff.on_text" \notin CallNames)
                 /\ (~params.xstatic /\ params.text # last.prev.text)
                       => (last.ok /\ "diff.on_text" \in CallNames)

\* a statically-named tag was rendered under another name and the assertion
\* fired before any callback
C26_Witness ==
    /\ TagDiffed
    /\ params.tstatic /\ params.tag # last.prev.tag
    /\ last.err = "panic: assertion failed (tag)"

\* C30: when a dynamically-named tag's name differs between the ancestor and
\* the current node, the element the current node holds after the diff has
\* the current tag name.
C30_DynamicTagRenamed ==
    (TagDiffed /\ last.ok /\ ~params.tstatic /\ params.tag # last.prev.tag)
        => (node.store # NoHandle /\ dom[node.store].name = node.tag)

\* C23: every closure passed to Differ::schedule, one scheduled from inside
\* a running closure included, is run exactly once and in the order
\* scheduled, and only by a later frame: the closures run so far are the
\* first ones scheduled, in order, and each one not yet run waits in the
\* queue, in order, with a frame requested.
C23_ScheduledRunOnceInOrder ==
    ~last.panicked =>
        /\ Len(ev) <= Len(cb)
        /\ \A k \in 1..Len(ev) : ev[k] = k
        /\ Len(params) = Len(cb) - Len(ev)
        /\ \A k \in 1..Len(params) : params[k].id = Len(ev) + k
        /\ (Len(params) > 0 => last.raf)

\* the last pass rendered the widget
WidgetRendered == \E k \in 1..Len(ev) : ev[k].ev = "widget_render"

\* C22: with the default should_rerender, a diff pass over a mounted widget
\* re-renders it exactly when the input the parent supplies differs from the
\* input of its last render or its state differs from its state at its last
\* render; when it is not re-rendered the current tree carries the previous
\* rendered output.
C22_RerenderOnChange ==
    (last.kind = "start" /\ last.mounted) =>
        /\ WidgetRendered <=> (<<last.input>> # last.rin \/ <<last.state>> # last.rst)
        /\ ~WidgetRendered =>
              /\ Len(node) = 1 /\ Len(node[1].output) = 1
              /\ node[1].output = dropped[1].output

\* C21: a mutable access to a component instance (with_instance_mut or
\* instance_mut) made while another borrow of the same instance is alive, as
\* from inside render while visit_rendered or diff_rendered holds the
\* instance, ends in a panic and leaves every instance as it was.
C21_ConflictingMutableAccessPanics ==
    [][(/\ last'.kind \in {"with_instance_mut", "instance_mut"}
        /\ inst[last'.id].alive
        /\ Borrowed(params, last'.id, {"ref", "mut"}))
          => (last'.result = "panic: already borrowed" /\ inst' = inst
              /\ params' = params)]_vars

\* render of an instance, running under the RefMut of visit_rendered, has
\* called with_instance_mut on that instance and the call has panicked; the
\* instance has the state it was built with
C21_Witness ==
    /\ last.kind = "with_instance_mut"
    /\ last.result = "panic: already borrowed"
    /\ Borrowed(params, last.id, {"mut"})
    /\ inst[last.id].comp = 0

\* C38: once every strong context of an instance has been dropped,
\* with_instance and with_instance_mut return None without running the
\* closure: no instance changes, no borrow is taken and nothing panics.
C38_DroppedInstanceIgnored ==
    [][(/\ last'.kind \in {"with_instance", "with_instance_mut"}
        /\ ~inst[last'.id].alive)
          => (last'.result = "None" /\ inst' = inst /\ params' = params)]_vars

\* a component whose context was dropped tried to update itself and got None
C38_Witness ==
    /\ last.kind = "with_instance_mut"
    /\ last.result = "None"
    /\ ~inst[last.id].alive

\* the closures run so far, by their position in the order scheduled
RanIds == {ev[k] : k \in 1..Len(ev)}

\* at most one requested frame has not begun, and raf is Some just then
OneOutstanding ==
    /\ last.requested - last.frames \in {0, 1}
    /\ last.raf <=> (last.requested - last.frames = 1)

\* C36: at most one animation-frame request is outstanding at any time, the
\* marker raf being set by the request and cleared when the callback starts;
\* and a closure scheduled while a frame is pending has run as soon as the
\* callback of that request has run, and not before.
C36_OneFramePending ==
    last.kind \in {"schedule", "frame"} =>
        /\ OneOutstanding
        /\ \A k \in 1..Len(cb) :
              cb[k].pending => ((k \in RanIds) <=> (last.frames >= cb[k].req))

RECURSIVE OutputsPresent(_)
\* a Widget child holds Some(output), and so do the widgets in its output
OutputsPresent(c) ==
    /\ c.kind = "Widget" => (Len(c.output) = 1 /\ OutputsPresent(c.output[1]))
    /\ c.kind = "Node" => \A i \in 1..Len(c.children) : OutputsPresent(c.children[i].child)

\* C32: after every completed pass of the keyed engine each Widget child of
\* the retained tree holds its rendered output, whether the widget was added,
\* re-rendered or reused by the pass.
C32_WidgetOutputKept ==
    (last.kind = "start" /\ last.ok /\ Len(node) = 1) => OutputsPresent(node[1])

RECURSIVE AllMounted(_)
\* every CompNode of the tree, those inside rendered subtrees included, has a
\* component context and a Rendered snapshot
AllMounted(n) ==
    CASE n.kind = "pair" -> AllMounted(n.l) /\ AllMounted(n.r)
      [] n.kind = "unit" -> TRUE
      [] n.kind = "opt" -> IF n.some THEN AllMounted(n.node) ELSE TRUE
      [] n.kind = "tag" -> AllMounted(n.children)
      [] n.kind = "text" -> TRUE
      [] n.kind = "comp" ->
            /\ n.comp_ctx # NoHandle
            /\ n.comp_rendered.st = "Rendered"
            /\ AllMounted(n.comp_rendered.rendered)

Registered(m, ty) == {k \in DOMAIN m : k.ty = ty}

\* the listeners on the root DOM node for a type
Attached(a, ty) == {h \in DOMAIN a : a[h] = ty}

\* C37: after any sequence of register and unregister calls the root-listener
\* count of every event type is the number of (path, type) entries of that
\* type, and a root listener exists exactly when that count is positive;
\* re-registering an existing (path, type) replaces the listener and leaves
\* the counts alone, and unregistering an absent entry changes nothing.
C37_RootListenerCount ==
    /\ last.ok
    /\ \A ty \in EventTypes :
          /\ RootCount(nodes, ty) = Cardinality(Registered(inst, ty))
          /\ (ty \in DOMAIN nodes) <=> (Cardinality(Registered(inst, ty)) > 0)
          /\ Attached(dom, ty) = IF ty \in DOMAIN nodes THEN {nodes[ty].handle} ELSE {}
    /\ \A k1, k2 \in DOMAIN inst : (PathEq(k1.path, k2.path) /\ k1.ty = k2.ty) => k1 = k2
    /\ (last.kind = "register" /\ last.existed) => (last.roots_kept /\ last.keys_kept)
    /\ (last.kind = "unregister" /\ ~last.existed) =>
          (last.roots_kept /\ last.listeners_kept)

\* an entry was re-registered under an equal path while two entries of its
\* type are counted
C37_Witness ==
    /\ last.kind = "register" /\ last.existed
    /\ ~last.listeners_kept
    /\ RootCount(nodes, last.ty) = 2

\* the widget types the application has
WidgetTypes == {"W", "Outer", "Panel"}

RECURSIVE WidgetsIn(_)
\* the types of the widgets a tree mounts, those in the widgets' outputs
\* included, in document order
WidgetsIn(c) ==
    CASE c.kind = "Widget" ->
            <<c.ty>> \o WidgetsIn(Widget_render(c.ty, 0, c.input[1]))
      [] c.kind = "Node" ->
            IF Len(c.children) = 0
            THEN <<>>
            ELSE WidgetsIn(c.children[1].child)
                    \o WidgetsIn([c EXCEPT !.children = Tail(@)])
      [] OTHER -> <<>>

\* C33: after every render pass widget_holders holds exactly one holder per
\* mounted widget, each with the state of its own widget type, also when the
\* output of a widget is directly a widget: for every widget type there are
\* as many holders as the tree the pass was given mounts widgets of the type.
C33_OneHolderPerWidget ==
    (last.kind = "start" /\ Len(last.asked) = 1) =>
        \A ty \in WidgetTypes :
            Cardinality({q \in DOMAIN inst : inst[q].ty = ty})
                = Cardinality({k \in 1..Len(WidgetsIn(last.asked[1])) :
                                  WidgetsIn(last.asked[1])[k] = ty})

\* C31: every event listener registered during a render pass is registered
\* with the path of the widget whose render built the node that carries it,
\* a node that follows a nested widget among the children of the widget's
\* output included.
C31_ListenerOfRenderingWidget ==
    \A k \in DOMAIN params.lm.listeners :
        /\ Len(params.lm.listeners[k].listener.by) = 1
        /\ PathEq(params.lm.listeners[k].widget_path,
                  params.lm.listeners[k].listener.by[1])

\* the log of the last frame's loop over the holders
LoopLog == SubSeq(ev, last.loop[1] + 1, Len(ev))

\* C35: in one animation-frame callback the loop re-renders the widgets that
\* need it in order of increasing path depth and each at most once, and it
\* ends with no holder that still reports should_rerender.
C35_RerenderByDepthOnce ==
    (last.kind \in {"start", "frame"} /\ Len(last.loop) = 1) =>
        /\ \A i, j \in 1..Len(LoopLog) :
              (i < j /\ LoopLog[i].ev = "picked" /\ LoopLog[j].ev = "picked")
                  => LoopLog[i].depth <= LoopLog[j].depth
        /\ \A i, j \in 1..Len(LoopLog) :
              (i < j /\ LoopLog[i].ev = "widget_render" /\ LoopLog[j].ev = "widget_render")
                  => ~PathEq(LoopLog[i].path[1], LoopLog[j].path[1])
        /\ last.err # "the loop goes on"
        /\ Stale(inst) = {}

\* the loop of a frame re-rendered two widgets, the deeper one later
C35_Witness ==
    /\ last.kind = "frame" /\ Len(last.loop) = 1 /\ last.ok
    /\ \E i, j \in 1..Len(LoopLog) :
          /\ i < j /\ LoopLog[i].ev = "picked" /\ LoopLog[j].ev = "picked"
          /\ LoopLog[i].depth < LoopLog[j].depth
    /\ Stale(inst) = {}

====
